---- MODULE Spec2Model ----
(***************************************************************************)
(* Model of the job queue: the SQLite job store (jobs and dead_letter_jobs *)
(* tables), the worker loop (lease, handler, success / retry / dead-letter *)
(* outcome), the admission path (rate limiter, idempotency lookup, insert) *)
(* and the process-local metrics counters.                                 *)
(*                                                                         *)
(* Time is a clock of ticks; the store keeps whole seconds (time.Unix()).  *)
(* A nullable column is a sequence of length 0 (NULL) or 1 (the value).    *)
(***************************************************************************)
EXTENDS Integers, Sequences, FiniteSets, TLC

VARIABLES
    now,        \* the wall clock, in ticks
    jobs,       \* the jobs table: job id -> row
    dlq,        \* the dead_letter_jobs table: set of rows, keyed by id
    wk,         \* per worker process: position in ProcessJobs and its leased copy
    wmet,       \* per worker process: its Metrics counters
    rq,         \* per in-flight POST /jobs request: position in JobService.CreateJob
    win,        \* RateLimiter.submissionWindows: tenant -> window
    totalJobs,  \* the API process's total_jobs counter
    nextId,     \* the next unused job id (uuid.New())
    faults,     \* number of injected store errors so far
    ctx,        \* per worker process: whether its context is cancelled
    hist        \* history of the run, read only by the properties

vars == <<now, jobs, dlq, wk, wmet, rq, win, totalJobs, nextId, faults, ctx, hist>>

----------------------------------------------------------------------------
(* Bounds of the model *)

NumWorkers == 2
\* number of rows the worker specifications start with
NumJobs == 2
\* largest max_retries a job of the worker specifications is created with
MaxM == 1
\* last tick of the clock
MaxTime == 5
\* clock ticks per second
TicksPerSec == 2
\* the lease duration, in seconds (cmd/worker/main.go uses 30)
LeaseSecs == 1
\* store errors injected in the specifications that count them
MaxFaults == 1

\* POST /jobs requests of a run
NumRequests == 3
\* the limiter's window (one minute in the code), in seconds
WindowSecs == 1
\* NewRateLimiter(maxConcurrentRunning, maxSubmissionsPerMinute); the API
\* process is started with (5, 10)
maxConcurrentRunning == 1
maxSubmissionsPerMinute == 2
\* CheckSubmissionRate calls of a run of the limiter alone
NumCalls == 6
\* goroutines of one process that share its Metrics
NumGoroutines == 2
\* Increment calls, and outcome decisions, of a run of the metrics alone
MaxIncrements == 4

Workers == 1..NumWorkers
Requests == 1..NumRequests
Keys == {"", "k1"}
\* max_retries of a request: absent (the default applies) or given
MaxRetriesInputs == {<<>>, <<0>>}
Tenants == {"t1", "t2"}
Payloads == {"ok", "fail"}

----------------------------------------------------------------------------
(* Values *)

StatusPending == "PENDING"
StatusRunning == "RUNNING"
StatusDone == "DONE"
StatusFailed == "FAILED"

\* sql.NullInt64 / sql.NullString
Null == <<>>
Some(v) == <<v>>
Valid(c) == Len(c) = 1

\* time.Time.Unix(): whole seconds
Unix(t) == t \div TicksPerSec

\* a lease shorter than one second
SubSecondLease == TicksPerSec - 1

\* leaseDuration of cmd/worker/main.go, in ticks
leaseDuration == LeaseSecs * TicksPerSec

\* an INSERT that stores the empty idempotency key as it is
KeyAsGiven(key) == Some(key)

\* CreateJob: the empty idempotency key is stored as NULL
KeyColumn(key) == IF key = "" THEN Null ELSE Some(key)

\* the scans of the readers: a NULL idempotency_key reads back as ""
KeyField(col) == IF Valid(col) THEN col[1] ELSE ""

NoJob == [id |-> 0]

----------------------------------------------------------------------------
(* The store *)

\* INSERT INTO jobs of CreateJob: created_at = updated_at = now, no lease
NewRow(tenant, key, payload, maxRetries, t) ==
    [tenant_id |-> tenant, idempotency_key |-> KeyColumn(key), payload |-> payload,
     status |-> StatusPending, max_retries |-> maxRetries, retry_count |-> 0,
     leased_at |-> Null, lease_expires_at |-> Null,
     created_at |-> Unix(t), updated_at |-> Unix(t)]

\* a WHERE clause that takes every row
LeasableAnyStatus(r, nowUnix) == TRUE

\* a WHERE clause that takes any RUNNING row
LeasableWhileHeld(r, nowUnix) == r.status \in {StatusPending, StatusRunning}

\* a WHERE clause that takes a lease at the second it expires
LeasableAtExpiry(r, nowUnix) ==
    \/ r.status = StatusPending
    \/ /\ r.status = StatusRunning
       /\ Valid(r.lease_expires_at)
       /\ r.lease_expires_at[1] <= nowUnix

\* a WHERE clause without the expired-lease branch
LeasablePendingOnly(r, nowUnix) == r.status = StatusPending

\* WHERE clause of the SELECT of LeaseJob
Leasable(r, nowUnix) ==
    \/ r.status = StatusPending
    \/ /\ r.status = StatusRunning
       /\ Valid(r.lease_expires_at)
       /\ r.lease_expires_at[1] < nowUnix

\* a SELECT that passes over the rows of a tenant at its concurrent-running cap
CandidatesUnderCap(nowUnix) ==
    {i \in DOMAIN jobs :
        /\ Leasable(jobs[i], nowUnix)
        /\ Cardinality({k \in DOMAIN jobs : /\ jobs[k].tenant_id = jobs[i].tenant_id
                                            /\ jobs[k].status = StatusRunning})
              < maxConcurrentRunning
        /\ \A k \in DOMAIN jobs :
              Leasable(jobs[k], nowUnix) => jobs[i].created_at <= jobs[k].created_at}

\* a SELECT without the ORDER BY
AnyLeasable(nowUnix) == {i \in DOMAIN jobs : Leasable(jobs[i], nowUnix)}

\* ORDER BY created_at ASC LIMIT 1: the rows the SELECT of LeaseJob may return
\* (a tie on created_at is broken by the store)
LeaseCandidates(nowUnix) ==
    {i \in DOMAIN jobs :
        /\ Leasable(jobs[i], nowUnix)
        /\ \A k \in DOMAIN jobs :
              Leasable(jobs[k], nowUnix) => jobs[i].created_at <= jobs[k].created_at}

\* a lease that starts the retry count again
LeasedAfresh(r, t) ==
    [r EXCEPT !.status = StatusRunning,
              !.retry_count = 0,
              !.leased_at = Some(Unix(t)),
              !.lease_expires_at = Some(Unix(t + leaseDuration)),
              !.updated_at = Unix(t)]

\* the UPDATE of LeaseJob
LeasedRow(r, t) ==
    [r EXCEPT !.status = StatusRunning,
              !.leased_at = Some(Unix(t)),
              !.lease_expires_at = Some(Unix(t + leaseDuration)),
              !.updated_at = Unix(t)]

\* an UPDATE that stamps created_at as well
RestampCreatedAt(id, status) ==
    IF id \in DOMAIN jobs
    THEN [jobs EXCEPT ![id].status = status, ![id].updated_at = Unix(now),
                      ![id].created_at = Unix(now)]
    ELSE jobs

\* an UPDATE that also clears the lease columns
ClearLeaseToo(id, status) ==
    IF id \in DOMAIN jobs
    THEN [jobs EXCEPT ![id].status = status, ![id].updated_at = Unix(now),
                      ![id].leased_at = Null, ![id].lease_expires_at = Null]
    ELSE jobs

\* UPDATE jobs SET status = ?, updated_at = ? WHERE id = ? (no row: no change)
UpdateJobStatus(id, status) ==
    IF id \in DOMAIN jobs
    THEN [jobs EXCEPT ![id].status = status, ![id].updated_at = Unix(now)]
    ELSE jobs

\* UPDATE jobs SET retry_count = retry_count + 1, updated_at = ? WHERE id = ?
IncrementRetryCount(id) ==
    IF id \in DOMAIN jobs
    THEN [jobs EXCEPT ![id].retry_count = @ + 1, ![id].updated_at = Unix(now)]
    ELSE jobs

\* a move that keeps the jobs row, marked FAILED
KeepRowAsFailed(id) ==
    IF id \in DOMAIN jobs THEN [jobs EXCEPT ![id].status = StatusFailed] ELSE jobs

\* a MoveToDeadLetterQueue whose DELETE is lost
DeleteNothing(id) == jobs

\* DELETE FROM jobs WHERE id = ?
DeleteRow(id) == [i \in DOMAIN jobs \ {id} |-> jobs[i]]

\* the row MoveToDeadLetterQueue inserts: id "dlq_<job id>_<unix seconds>"
DlqRow(job, reason) ==
    [id |-> <<job.id, Unix(now)>>, job_id |-> job.id, tenant_id |-> job.tenant_id,
     payload |-> job.payload, failure_reason |-> reason, failed_at |-> Unix(now)]

\* PRIMARY KEY of dead_letter_jobs
DlqIdTaken(id) == \E d \in dlq : d.id = id

\* the API process, as a connection to the store
ApiProcess == 0

\* SQLite: a transaction that has read fails to write once another connection
\* has committed after its read (SQLITE_BUSY); every commit marks the open
\* LeaseJob transactions of the other processes
Commit(w) ==
    [v \in Workers |->
        IF v # w /\ wk[v].pc = "leasing" THEN [wk[v] EXCEPT !.stale = TRUE] ELSE wk[v]]

\* a store that lets every LeaseJob transaction write
TxNeverRefused(w) == FALSE

\* whether the UPDATE of worker w's LeaseJob transaction is refused
TxRefused(w) == wk[w].stale

----------------------------------------------------------------------------
(* The worker *)

\* a handler that fails on the first attempt of a job and succeeds afterwards
FailsOnFirstAttempt(job) == job.retry_count = 0

\* processJob: the reference handler fails iff the payload is "fail"
HandlerFails(job) == job.payload = "fail"

\* a worker that never retries
NeverRetry(job) == FALSE

\* a retry test that is off by one
RetryOnceMore(job) == job.retry_count <= job.max_retries

\* handleJobFailure: retry while the leased copy has retries left
ShouldRetry(job) == job.retry_count < job.max_retries

\* processJob: the reason the reference handler fails with
HandlerReason == "payload is 'fail'"

\* a DLQ reason without the prefix
BareReason(reason) == reason

\* handleJobFailure: fmt.Sprintf("max retries exceeded: %s", failureReason)
MaxRetriesExceeded(reason) == "max retries exceeded: " \o reason

FailureReason == MaxRetriesExceeded(HandlerReason)

\* the worker's copy of the row LeaseJob returned
Copy(id, r, t) ==
    [id |-> id, tenant_id |-> r.tenant_id, payload |-> r.payload,
     max_retries |-> r.max_retries, retry_count |-> r.retry_count,
     lease_expires_at |-> Unix(t + leaseDuration)]

\* seen (the row the SELECT returned) and taken (another LeaseJob has returned
\* that row since) are kept for the properties only
Idle(pc) ==
    [pc |-> pc, job |-> NoJob, seen |-> Null, txNow |-> 0, stale |-> FALSE,
     taken |-> FALSE]

ZeroMetrics == [completed_jobs |-> 0, failed_jobs |-> 0, retried_jobs |-> 0]

\* whether worker w's write comes after the lease it holds has run out
Late(w) == Unix(now) > wk[w].job.lease_expires_at

\* LeaseJob, first half: BeginTx, now := time.Now(), the SELECT; no row -> nil
LeaseSelect(w) ==
    /\ wk[w].pc = "poll"
    /\ \/ /\ LeaseCandidates(Unix(now)) = {}
          /\ wk' = [wk EXCEPT ![w] = Idle("sleep")]
       \/ \E i \in LeaseCandidates(Unix(now)) :
             wk' = [wk EXCEPT ![w] = [pc |-> "leasing", job |-> Copy(i, jobs[i], now),
                                      seen |-> Some(jobs[i]), txNow |-> now,
                                      stale |-> FALSE, taken |-> FALSE]]
    /\ UNCHANGED <<now, jobs, dlq, wmet, rq, win, totalJobs, nextId>>

\* LeaseJob, second half: the UPDATE and the commit; a refused write is an error
\* and ProcessJobs sleeps
LeaseUpdate(w) ==
    /\ wk[w].pc = "leasing"
    /\ LET id == wk[w].job.id IN
       IF TxRefused(w)
       THEN /\ wk' = [wk EXCEPT ![w] = Idle("sleep")]
            /\ UNCHANGED jobs
       ELSE /\ jobs' = [jobs EXCEPT ![id] = LeasedRow(@, wk[w].txNow)]
            /\ wk' = [v \in Workers |->
                        IF v = w THEN [wk[w] EXCEPT !.pc = "handling"]
                        ELSE IF wk[v].pc = "leasing" /\ wk[v].job.id = id
                             THEN [Commit(w)[v] EXCEPT !.taken = TRUE]
                             ELSE Commit(w)[v]]
    /\ UNCHANGED <<now, dlq, wmet, rq, win, totalJobs, nextId>>

\* time.Sleep(1 * time.Second) of ProcessJobs is over
Wake(w) ==
    /\ wk[w].pc = "sleep"
    /\ wk' = [wk EXCEPT ![w].pc = "poll"]
    /\ UNCHANGED <<now, jobs, dlq, wmet, rq, win, totalJobs, nextId>>

\* processJob, success: UpdateJobStatus(DONE), IncrementCompletedJobs
JobSucceeds(w) ==
    /\ wk[w].pc = "handling"
    /\ ~HandlerFails(wk[w].job)
    /\ LET id == wk[w].job.id IN
       jobs' = UpdateJobStatus(id, StatusDone)
    /\ wk' = [Commit(w) EXCEPT ![w] = Idle("poll")]
    /\ wmet' = [wmet EXCEPT ![w].completed_jobs = @ + 1]
    /\ UNCHANGED <<now, dlq, rq, win, totalJobs, nextId>>

\* handleJobFailure, retry branch, first write: IncrementRetryCount
JobRetryBump(w) ==
    /\ wk[w].pc = "handling"
    /\ HandlerFails(wk[w].job)
    /\ ShouldRetry(wk[w].job)
    /\ LET id == wk[w].job.id IN
       jobs' = IncrementRetryCount(id)
    /\ wk' = [Commit(w) EXCEPT ![w].pc = "resetting"]
    /\ UNCHANGED <<now, dlq, wmet, rq, win, totalJobs, nextId>>

\* handleJobFailure, retry branch, second write: UpdateJobStatus(PENDING),
\* IncrementRetriedJobs
JobRetryReset(w) ==
    /\ wk[w].pc = "resetting"
    /\ LET id == wk[w].job.id IN
       jobs' = UpdateJobStatus(id, StatusPending)
    /\ wk' = [Commit(w) EXCEPT ![w] = Idle("poll")]
    /\ wmet' = [wmet EXCEPT ![w].retried_jobs = @ + 1]
    /\ UNCHANGED <<now, dlq, rq, win, totalJobs, nextId>>

\* handleJobFailure, no retries left: MoveToDeadLetterQueue (one transaction:
\* INSERT INTO dead_letter_jobs, DELETE FROM jobs), IncrementFailedJobs; the
\* insert fails on a taken id and the transaction is rolled back
JobDeadLetter(w) ==
    /\ wk[w].pc = "handling"
    /\ HandlerFails(wk[w].job)
    /\ ~ShouldRetry(wk[w].job)
    /\ LET job == wk[w].job
           row == DlqRow(job, FailureReason) IN
       IF DlqIdTaken(row.id)
       THEN /\ wk' = [wk EXCEPT ![w] = Idle("poll")]
            /\ UNCHANGED <<jobs, dlq, wmet>>
       ELSE /\ dlq' = dlq \cup {row}
            /\ jobs' = DeleteRow(job.id)
            /\ wk' = [Commit(w) EXCEPT ![w] = Idle("poll")]
            /\ wmet' = [wmet EXCEPT ![w].failed_jobs = @ + 1]
    /\ UNCHANGED <<now, rq, win, totalJobs, nextId>>

\* a store call of the worker returns an error: LeaseJob's UPDATE or commit
\* (ProcessJobs sleeps), or an outcome write (processJob logs and returns)
WorkerStoreError(w) ==
    /\ \/ /\ wk[w].pc = "leasing"
          /\ wk' = [wk EXCEPT ![w] = Idle("sleep")]
       \/ /\ wk[w].pc \in {"handling", "resetting"}
          /\ wk' = [wk EXCEPT ![w] = Idle("poll")]
    /\ UNCHANGED <<now, jobs, dlq, wmet, rq, win, totalJobs, nextId>>

\* the worker process is killed
Crash(w) ==
    /\ wk[w].pc # "crashed"
    /\ wk' = [wk EXCEPT ![w] = Idle("crashed")]
    /\ UNCHANGED <<now, jobs, dlq, wmet, rq, win, totalJobs, nextId>>

\* the clock advances
Tick ==
    /\ now < MaxTime
    /\ now' = now + 1
    /\ UNCHANGED <<jobs, dlq, wk, wmet, rq, win, totalJobs, nextId>>

----------------------------------------------------------------------------
(* Admission: JobService.CreateJob, one store or limiter call per step *)

\* the limiter's window, in ticks
window == WindowSecs * TicksPerSec

\* maxRetries := 3 unless the request carries one
DefaultMaxRetries == 3
\* a CreateJob that ignores the request's max_retries
AlwaysDefault(opt) == DefaultMaxRetries

RequestMaxRetries(opt) == IF Valid(opt) THEN opt[1] ELSE DefaultMaxRetries

NoRequest ==
    [pc |-> "new", tenant |-> "", key |-> "", payload |-> "", max_retries |-> Null,
     code |-> 0, id |-> 0, how |-> "", dup |-> FALSE, other |-> FALSE]

\* the call returns: HTTP status, the job returned (0: none) and how it was
\* found; the request body is dropped; other (the call returned a row whose
\* payload or max_retries is not the request's) is kept for the properties only
Reply(r, code, id, how) ==
    [r EXCEPT !.pc = "done", !.code = code, !.id = id, !.how = how,
              !.payload = "", !.max_retries = Null,
              !.other = /\ how \in {"existing", "refetched"}
                        /\ \/ jobs[id].payload # r.payload
                           \/ jobs[id].max_retries # RequestMaxRetries(r.max_retries)]

\* a window that is over at the instant it ends
ExpiredAtEnd(w, t) == ~Valid(w) \/ t >= w[1].windowEnd

\* CheckSubmissionRate, on one window w read at time t: !exists ||
\* now.After(window.windowEnd)
Expired(w, t) == ~Valid(w) \/ t > w[1].windowEnd

\* a limit that lets one more call through
OverLimit(w) == w[1].count > maxSubmissionsPerMinute

\* window.count >= rl.maxSubmissionsPerMinute
AtLimit(w) == w[1].count >= maxSubmissionsPerMinute

\* a check that lets a call through without counting it
PassedUncounted(w, t) == w

\* the window an admitted call at time t leaves: a new one, or count++
Advanced(w, t) ==
    IF Expired(w, t)
    THEN Some([count |-> 1, windowEnd |-> t + window])
    ELSE Some([count |-> w[1].count + 1, windowEnd |-> w[1].windowEnd])

\* CheckSubmissionRate: whether the tenant's window is missing or over
WindowOver(tenant) == Expired(win[tenant], now)

\* CheckSubmissionRate: whether the call is refused
SubmissionRefused(tenant) == ~WindowOver(tenant) /\ AtLimit(win[tenant])

\* one window shared by all the tenants
CountedForAll(tenant) == [t \in DOMAIN win |-> Advanced(win[tenant], now)]

\* CheckSubmissionRate: the windows after an admitted call
Counted(tenant) == [win EXCEPT ![tenant] = Advanced(@, now)]

\* a lookup that finds no row
MatchingNothing(tenant, key) == {}

\* a lookup by idempotency key alone
MatchingKeyOnly(tenant, key) ==
    {i \in DOMAIN jobs : jobs[i].idempotency_key = KeyColumn(key)}

\* GetJobByTenantAndIdempotencyKey: the rows the WHERE clause matches
MatchingRows(tenant, key) ==
    {i \in DOMAIN jobs : jobs[i].tenant_id = tenant
                         /\ jobs[i].idempotency_key = KeyColumn(key)}

\* a count of the RUNNING rows whose lease is not over
RunningUnexpired(tenant) ==
    Cardinality({i \in DOMAIN jobs : /\ jobs[i].tenant_id = tenant
                                     /\ jobs[i].status = StatusRunning
                                     /\ jobs[i].lease_expires_at[1] >= Unix(now)})

\* GetRunningJobsCountByTenant
RunningCount(tenant) ==
    Cardinality({i \in DOMAIN jobs : jobs[i].tenant_id = tenant
                                     /\ jobs[i].status = StatusRunning})

\* a limit that lets one more job run
RefusedAboveLimit(currentRunning) == currentRunning > maxConcurrentRunning

\* CheckConcurrentLimit
ConcurrentRefused(currentRunning) == currentRunning >= maxConcurrentRunning

\* a jobs table without the UNIQUE constraint
NoConflict(tenant, key) == FALSE

\* UNIQUE(tenant_id, idempotency_key): NULL keys never conflict
UniqueConflict(tenant, key) ==
    \E i \in DOMAIN jobs : /\ jobs[i].tenant_id = tenant
                           /\ Valid(jobs[i].idempotency_key)
                           /\ jobs[i].idempotency_key = KeyColumn(key)

\* the jobs table with row r added under id
Inserted(id, r) == [i \in DOMAIN jobs \cup {id} |-> IF i = id THEN r ELSE jobs[i]]

\* tenants are interchangeable: a request comes from a tenant seen before or
\* from the first one not yet seen
NextTenants ==
    LET seen == {rq[p].tenant : p \in Requests} \ {""} IN
    IF seen = {} THEN {"t1"} ELSE Tenants

\* CreateJob, entry: the request arrives and CheckSubmissionRate decides
Admit(q) ==
    /\ rq[q].pc = "new"
    /\ \A p \in Requests : p < q => rq[p].pc # "new"
    /\ \E t \in NextTenants, k \in Keys, p \in Payloads, m \in MaxRetriesInputs :
          LET r == [NoRequest EXCEPT !.tenant = t, !.key = k, !.payload = p,
                                     !.max_retries = m] IN
          IF SubmissionRefused(t)
          THEN /\ rq' = [rq EXCEPT ![q] = Reply(r, 429, 0, "")]
               /\ UNCHANGED win
          ELSE /\ rq' = [rq EXCEPT ![q] = [r EXCEPT !.pc = IF k = "" THEN "count"
                                                                  ELSE "lookup"]]
               /\ win' = Counted(t)
    /\ UNCHANGED <<now, jobs, dlq, wk, wmet, totalJobs, nextId>>

\* CreateJob, idempotency check: an existing row is returned as it is
Lookup(q) ==
    /\ rq[q].pc = "lookup"
    /\ LET found == MatchingRows(rq[q].tenant, rq[q].key) IN
       \/ /\ found = {}
          /\ rq' = [rq EXCEPT ![q].pc = "count"]
       \/ \E i \in found : rq' = [rq EXCEPT ![q] = Reply(@, 201, i, "existing")]
    /\ UNCHANGED <<now, jobs, dlq, wk, wmet, win, totalJobs, nextId>>

\* CreateJob, concurrent-running check: GetRunningJobsCountByTenant, then
\* CheckConcurrentLimit on the count read
CheckRunning(q) ==
    /\ rq[q].pc = "count"
    /\ IF ConcurrentRefused(RunningCount(rq[q].tenant))
       THEN rq' = [rq EXCEPT ![q] = Reply(@, 429, 0, "")]
       ELSE rq' = [rq EXCEPT ![q].pc = "insert"]
    /\ UNCHANGED <<now, jobs, dlq, wk, wmet, win, totalJobs, nextId>>

\* CreateJob, the INSERT: a fresh id; on success IncrementTotalJobs; on a
\* UNIQUE violation ErrDuplicateIdempotencyKey and the re-fetch follows
Insert(q) ==
    /\ rq[q].pc = "insert"
    /\ IF UniqueConflict(rq[q].tenant, rq[q].key)
       THEN /\ rq' = [rq EXCEPT ![q].pc = "refetch", ![q].dup = TRUE]
            /\ UNCHANGED <<jobs, wk, totalJobs, nextId>>
       ELSE /\ jobs' = Inserted(nextId, NewRow(rq[q].tenant, rq[q].key, rq[q].payload,
                                               RequestMaxRetries(rq[q].max_retries), now))
            /\ wk' = Commit(ApiProcess)
            /\ rq' = [rq EXCEPT ![q] = Reply(@, 201, nextId, "inserted")]
            /\ totalJobs' = totalJobs + 1
            /\ nextId' = nextId + 1
    /\ UNCHANGED <<now, dlq, wmet, win>>

\* CreateJob, after ErrDuplicateIdempotencyKey: the winner's row is returned;
\* no row: the duplicate error goes out (409)
Refetch(q) ==
    /\ rq[q].pc = "refetch"
    /\ LET found == MatchingRows(rq[q].tenant, rq[q].key) IN
       \/ /\ found = {}
          /\ rq' = [rq EXCEPT ![q] = Reply(@, 409, 0, "")]
       \/ \E i \in found : rq' = [rq EXCEPT ![q] = Reply(@, 201, i, "refetched")]
    /\ UNCHANGED <<now, jobs, dlq, wk, wmet, win, totalJobs, nextId>>

\* a store call of CreateJob returns an error: the request fails (500)
RequestStoreError(q) ==
    /\ rq[q].pc \in {"lookup", "count", "insert", "refetch"}
    /\ rq' = [rq EXCEPT ![q] = Reply(@, 500, 0, "")]
    /\ UNCHANGED <<now, jobs, dlq, wk, wmet, win, totalJobs, nextId>>

RequestStep(q) ==
    \/ Admit(q)
    \/ Lookup(q)
    \/ CheckRunning(q)
    \/ Insert(q)
    \/ Refetch(q)
    \/ RequestStoreError(q)

----------------------------------------------------------------------------
(* The history of a run: what the step just taken did, read off the step *)

\* worker w's LeaseJob returned a row in this step
Granted(w) == wk[w].pc = "leasing" /\ wk'[w].pc = "handling"

\* worker w wrote DONE, or moved its job to the DLQ, in this step
WroteOutcome(w) ==
    \/ wmet'[w].completed_jobs = wmet[w].completed_jobs + 1
    \/ wmet'[w].failed_jobs = wmet[w].failed_jobs + 1

\* worker w incremented retry_count in this step
Bumped(w) == wk[w].pc = "handling" /\ wk'[w].pc = "resetting"

\* worker w reset its job to PENDING in this step
ResetDone(w) == wmet'[w].retried_jobs = wmet[w].retried_jobs + 1

\* the ids of the rows ever created
AllIds == DOMAIN hist.created

\* the workers whose current job is row i
Doing(i) == {w \in Workers : wk[w].job.id = i}

InitHist(rows) ==
    [created |-> rows,
     attempts |-> [i \in DOMAIN rows |-> 0], bumps |-> [i \in DOMAIN rows |-> 0],
     resets |-> [i \in DOMAIN rows |-> 0], outcomes |-> [i \in DOMAIN rows |-> 0],
     late |-> FALSE]

Track ==
    LET did(i, ws) == Cardinality(ws \cap Doing(i))
        granted == {w \in Workers : Granted(w)}
        bumped == {w \in Workers : Bumped(w)}
        reset == {w \in Workers : ResetDone(w)}
        wrote == {w \in Workers : WroteOutcome(w)}
    IN  hist' = [created |-> hist.created,
                 attempts |-> [i \in AllIds |-> hist.attempts[i] + did(i, granted)],
                 bumps |-> [i \in AllIds |-> hist.bumps[i] + did(i, bumped)],
                 resets |-> [i \in AllIds |-> hist.resets[i] + did(i, reset)],
                 outcomes |-> [i \in AllIds |-> hist.outcomes[i] + did(i, wrote)],
                 late |-> hist.late \/ \E w \in bumped \cup reset \cup wrote : Late(w)]

----------------------------------------------------------------------------
(* Workers over a store that already holds NumJobs PENDING rows *)

JobIds == 1..NumJobs

\* the rows are interchangeable at the start: one order of each pair is enough
Shape(r) == r.max_retries + (IF r.payload = "fail" THEN MaxM + 1 ELSE 0)

\* the store after CreateJob has inserted the rows ids at time 0
InitStore(ids) ==
    /\ now = 0
    /\ jobs \in [ids -> {NewRow(t, "", p, m, 0) :
                           t \in {"t1"}, p \in Payloads, m \in 0..MaxM}]
    /\ \A i, k \in ids : i < k => Shape(jobs[i]) <= Shape(jobs[k])
    /\ dlq = {}
    /\ wk = [w \in Workers |-> Idle("poll")]
    /\ wmet = [w \in Workers |-> ZeroMetrics]
    /\ rq = <<>>
    /\ win = <<>>
    /\ totalJobs = Cardinality(ids)
    /\ nextId = Cardinality(ids) + 1
    /\ faults = 0
    /\ ctx = [w \in Workers |-> FALSE]
    /\ hist = InitHist(jobs)

InitWorkers == InitStore(JobIds)

\* one row only
InitOneJob == InitStore({1})

WorkerStep(w) ==
    \/ LeaseSelect(w)
    \/ LeaseUpdate(w)
    \/ Wake(w)
    \/ JobSucceeds(w)
    \/ JobRetryBump(w)
    \/ JobRetryReset(w)
    \/ JobDeadLetter(w)

NextWorkers ==
    \/ \E w \in Workers : WorkerStep(w) /\ UNCHANGED <<faults, ctx, hist>>
    \/ \E w \in Workers : WorkerStoreError(w) /\ UNCHANGED <<faults, ctx, hist>>
    \/ \E w \in Workers : Crash(w) /\ UNCHANGED <<faults, ctx, hist>>
    \/ Tick /\ UNCHANGED <<faults, ctx, hist>>

SpecWorkers == InitWorkers /\ [][NextWorkers]_vars

----------------------------------------------------------------------------
(* The same workers with the history kept, under the scheduling the worker
   processes have: every live worker keeps running, the clock keeps advancing
   while a lease is outstanding, worker 1 is never killed and the store fails
   at most MaxFaults times *)

\* a lease is still running: the clock matters to some row
LeaseOutstanding ==
    \E i \in DOMAIN jobs :
        /\ jobs[i].status = StatusRunning
        /\ Valid(jobs[i].lease_expires_at)
        /\ jobs[i].lease_expires_at[1] >= Unix(now)

TickWhileLeased ==
    /\ LeaseOutstanding
    /\ now' = now + 1
    /\ UNCHANGED <<jobs, dlq, wk, wmet, rq, win, totalJobs, nextId, faults, ctx, hist>>

\* no worker that is inside LeaseJob or holds a job is overtaken by the clock
NoLeaseRunsOut ==
    \A w \in Workers :
        wk[w].pc \in {"leasing", "handling", "resetting"}
            => Unix(now + 1) <= wk[w].job.lease_expires_at

TickWithinLeases == NoLeaseRunsOut /\ TickWhileLeased

Run(w) == WorkerStep(w) /\ Track /\ UNCHANGED <<faults, ctx>>

Fault(w) ==
    /\ faults < MaxFaults
    /\ faults' = faults + 1
    /\ WorkerStoreError(w)
    /\ UNCHANGED <<ctx, hist>>

Kill(w) == w # 1 /\ Crash(w) /\ UNCHANGED <<faults, ctx, hist>>

NextFair ==
    \/ \E w \in Workers : Run(w)
    \/ \E w \in Workers : Fault(w)
    \/ \E w \in Workers : Kill(w)
    \/ TickWhileLeased

SpecFair ==
    /\ InitOneJob
    /\ [][NextFair]_vars
    /\ WF_vars(TickWhileLeased)
    /\ \A w \in Workers : WF_vars(Run(w))

\* ... and no handler runs longer than its lease
NextNoOverrun ==
    \/ \E w \in Workers : Run(w)
    \/ \E w \in Workers : Fault(w)
    \/ \E w \in Workers : Kill(w)
    \/ TickWithinLeases

SpecNoOverrun ==
    /\ InitWorkers
    /\ [][NextNoOverrun]_vars
    /\ WF_vars(TickWithinLeases)
    /\ \A w \in Workers : WF_vars(Run(w))

\* ... and no store call fails and no worker is killed
NextClean ==
    \/ \E w \in Workers : Run(w)
    \/ TickWithinLeases

SpecClean ==
    /\ InitWorkers
    /\ [][NextClean]_vars
    /\ WF_vars(TickWithinLeases)
    /\ \A w \in Workers : WF_vars(Run(w))

----------------------------------------------------------------------------
(* Two workers and one row under a clock that runs a second longer: a worker
   that outlived its lease and the worker that re-leased the row can write in
   different seconds *)

\* the last tick of the longer run
LateTime == MaxTime + TicksPerSec

TickLate ==
    /\ now < LateTime
    /\ now' = now + 1
    /\ UNCHANGED <<jobs, dlq, wk, wmet, rq, win, totalJobs, nextId, faults, ctx, hist>>

NextOverrun ==
    \/ \E w \in Workers : WorkerStep(w) /\ UNCHANGED <<faults, ctx, hist>>
    \/ \E w \in Workers : WorkerStoreError(w) /\ UNCHANGED <<faults, ctx, hist>>
    \/ \E w \in Workers : Crash(w) /\ UNCHANGED <<faults, ctx, hist>>
    \/ TickLate

SpecOverrun == InitOneJob /\ [][NextOverrun]_vars

----------------------------------------------------------------------------
(* Workers over a store whose rows were created in different seconds: each of
   the NumJobs PENDING rows was inserted a second before time 0 or at time 0 *)

CreatedAt == {0 - TicksPerSec, 0}

InitAged ==
    /\ now = 0
    /\ jobs \in [JobIds -> {NewRow(t, "", p, m, c) :
                              t \in {"t1"}, p \in Payloads, m \in 0..MaxM,
                              c \in CreatedAt}]
    /\ \A i, k \in JobIds : i < k => Shape(jobs[i]) <= Shape(jobs[k])
    /\ dlq = {}
    /\ wk = [w \in Workers |-> Idle("poll")]
    /\ wmet = [w \in Workers |-> ZeroMetrics]
    /\ rq = <<>>
    /\ win = <<>>
    /\ totalJobs = NumJobs
    /\ nextId = NumJobs + 1
    /\ faults = 0
    /\ ctx = [w \in Workers |-> FALSE]
    /\ hist = InitHist(jobs)

SpecAged == InitAged /\ [][NextWorkers]_vars

----------------------------------------------------------------------------
(* A single worker process over the rows created in different seconds, with
   the history kept: no other worker runs, no store call fails, the worker
   keeps running and the clock advances while a lease is outstanding *)

NextSingle ==
    \/ Run(1)
    \/ TickWhileLeased

SpecSingle ==
    /\ InitAged
    /\ [][NextSingle]_vars
    /\ WF_vars(TickWhileLeased)
    /\ WF_vars(Run(1))

----------------------------------------------------------------------------
(* The workers with the clock read of each store call as a step of its own:
   LeaseJob, UpdateJobStatus and IncrementRetryCount each run
   now := time.Now() first and hand now.Unix() to the statement they execute
   afterwards; wk[w].txNow is the now of the call worker w is in *)

\* UpdateJobStatus, the UPDATE, with the now the call read
UpdateJobStatusAt(id, status, t) ==
    IF id \in DOMAIN jobs
    THEN [jobs EXCEPT ![id].status = status, ![id].updated_at = Unix(t)]
    ELSE jobs

\* IncrementRetryCount, the UPDATE, with the now the call read
IncrementRetryCountAt(id, t) ==
    IF id \in DOMAIN jobs
    THEN [jobs EXCEPT ![id].retry_count = @ + 1, ![id].updated_at = Unix(t)]
    ELSE jobs

\* LeaseJob: BeginTx (deferred: no snapshot yet), now := time.Now()
LeaseBegin(w) ==
    /\ wk[w].pc = "poll"
    /\ wk' = [wk EXCEPT ![w].pc = "selecting", ![w].txNow = now]
    /\ UNCHANGED <<now, jobs, dlq, wmet, rq, win, totalJobs, nextId>>

\* LeaseJob: the SELECT, with the nowUnix read before it
LeaseSelectAt(w) ==
    /\ wk[w].pc = "selecting"
    /\ LET t == wk[w].txNow IN
       \/ /\ LeaseCandidates(Unix(t)) = {}
          /\ wk' = [wk EXCEPT ![w] = Idle("sleep")]
       \/ \E i \in LeaseCandidates(Unix(t)) :
             wk' = [wk EXCEPT ![w] = [pc |-> "leasing", job |-> Copy(i, jobs[i], t),
                                      seen |-> Some(jobs[i]), txNow |-> t,
                                      stale |-> FALSE, taken |-> FALSE]]
    /\ UNCHANGED <<now, jobs, dlq, wmet, rq, win, totalJobs, nextId>>

\* IncrementRetryCount: now := time.Now()
RetryNow(w) ==
    /\ wk[w].pc = "handling"
    /\ HandlerFails(wk[w].job)
    /\ ShouldRetry(wk[w].job)
    /\ wk' = [wk EXCEPT ![w].pc = "bumping", ![w].txNow = now]
    /\ UNCHANGED <<now, jobs, dlq, wmet, rq, win, totalJobs, nextId>>

\* IncrementRetryCount: the UPDATE
RetryWrite(w) ==
    /\ wk[w].pc = "bumping"
    /\ jobs' = IncrementRetryCountAt(wk[w].job.id, wk[w].txNow)
    /\ wk' = [Commit(w) EXCEPT ![w].pc = "resetting"]
    /\ UNCHANGED <<now, dlq, wmet, rq, win, totalJobs, nextId>>

\* UpdateJobStatus: now := time.Now(); DONE after a successful handler,
\* PENDING after IncrementRetryCount
StatusNow(w) ==
    /\ \/ wk[w].pc = "handling" /\ ~HandlerFails(wk[w].job)
       \/ wk[w].pc = "resetting"
    /\ wk' = [wk EXCEPT ![w].pc = "updating", ![w].txNow = now]
    /\ UNCHANGED <<now, jobs, dlq, wmet, rq, win, totalJobs, nextId>>

\* UpdateJobStatus: the UPDATE, then the counter of the outcome
StatusWrite(w) ==
    /\ wk[w].pc = "updating"
    /\ IF HandlerFails(wk[w].job)
       THEN /\ jobs' = UpdateJobStatusAt(wk[w].job.id, StatusPending, wk[w].txNow)
            /\ wmet' = [wmet EXCEPT ![w].retried_jobs = @ + 1]
       ELSE /\ jobs' = UpdateJobStatusAt(wk[w].job.id, StatusDone, wk[w].txNow)
            /\ wmet' = [wmet EXCEPT ![w].completed_jobs = @ + 1]
    /\ wk' = [Commit(w) EXCEPT ![w] = Idle("poll")]
    /\ UNCHANGED <<now, dlq, rq, win, totalJobs, nextId>>

ClockedStep(w) ==
    \/ LeaseBegin(w)
    \/ LeaseSelectAt(w)
    \/ LeaseUpdate(w)
    \/ Wake(w)
    \/ RetryNow(w)
    \/ RetryWrite(w)
    \/ StatusNow(w)
    \/ StatusWrite(w)
    \/ JobDeadLetter(w)

NextClock ==
    \/ \E w \in Workers : ClockedStep(w) /\ UNCHANGED <<faults, ctx, hist>>
    \/ TickWhileLeased

SpecClock == InitOneJob /\ [][NextClock]_vars

----------------------------------------------------------------------------
(* The workers under cancellation: on SIGINT / SIGTERM main cancels the
   context that ProcessJobs and every store call of the worker carry *)

\* a context the outcome writes of a running handler do not see
DoneOnceIdle(w) == ctx[w] /\ wk[w].pc \notin {"handling", "resetting"}

\* a context that is never done
NeverDone(w) == FALSE

\* <-ctx.Done() is ready; a store call made with such a context returns
\* context.Canceled and does nothing
Done(w) == ctx[w]

\* main: the signal handler calls cancel(); if the worker has just passed the
\* select of ProcessJobs, its LeaseJob is called with the cancelled context,
\* fails in BeginTx, and the worker sleeps
Cancel(w) ==
    /\ ~ctx[w]
    /\ wk[w].pc # "stopped"
    /\ ctx' = [ctx EXCEPT ![w] = TRUE]
    /\ \/ UNCHANGED wk
       \/ /\ wk[w].pc = "poll"
          /\ wk' = [wk EXCEPT ![w] = Idle("sleep")]
    /\ UNCHANGED <<now, jobs, dlq, wmet, rq, win, totalJobs, nextId, faults, hist>>

\* ProcessJobs: case <-ctx.Done(): return ctx.Err()
Exit(w) ==
    /\ wk[w].pc = "poll"
    /\ wk' = [wk EXCEPT ![w] = Idle("stopped")]
    /\ UNCHANGED <<now, jobs, dlq, wmet, rq, win, totalJobs, nextId>>

\* the loop of a worker whose context is live
Working(w) == ~Done(w) /\ WorkerStep(w) /\ UNCHANGED <<faults, ctx, hist>>

\* the loop of a worker whose context is cancelled: the store call it is in or
\* comes to fails (LeaseJob: sleep; an outcome write: logged, processJob
\* returns), its sleep ends, and at the select it returns
Stopping(w) ==
    /\ Done(w)
    /\ WorkerStoreError(w) \/ Wake(w) \/ Exit(w)
    /\ UNCHANGED <<faults, ctx, hist>>

NextCancel ==
    \/ \E w \in Workers : Working(w)
    \/ \E w \in Workers : Stopping(w)
    \/ \E w \in Workers : Cancel(w)
    \/ TickWhileLeased

SpecCancel ==
    /\ InitOneJob
    /\ [][NextCancel]_vars
    /\ WF_vars(TickWhileLeased)
    /\ \A w \in Workers : WF_vars(Working(w)) /\ WF_vars(Stopping(w))

----------------------------------------------------------------------------
(* The API process and one worker process over an empty store *)

Init ==
    /\ now = 0
    /\ jobs = <<>>
    /\ dlq = {}
    /\ wk = [w \in Workers |-> Idle("poll")]
    /\ wmet = [w \in Workers |-> ZeroMetrics]
    /\ rq = [q \in Requests |-> NoRequest]
    /\ win = [t \in Tenants |-> Null]
    /\ totalJobs = 0
    /\ nextId = 1
    /\ faults = 0
    /\ ctx = [w \in Workers |-> FALSE]
    /\ hist = InitHist(jobs)

\* the requests and the worker run within one tick of the clock
Next ==
    \/ \E q \in Requests : RequestStep(q) /\ UNCHANGED <<faults, ctx, hist>>
    \/ WorkerStep(1) /\ UNCHANGED <<faults, ctx, hist>>

Spec == Init /\ [][Next]_vars

----------------------------------------------------------------------------
(* The API process behind its HTTP handler, and one worker process, over an
   empty store: POST /jobs bodies may lack tenant_id or payload *)

\* a handler that rejects every body
AlwaysInvalid(tenant, payload) == TRUE

\* JobHandler.CreateJob: req.TenantID == "" or req.Payload == ""
Invalid(tenant, payload) == tenant = "" \/ payload = ""

\* JobHandler.CreateJob, validation: 400 and return, before
\* jobService.CreateJob is called; the body is kept for the properties only
BadRequest(q) ==
    /\ rq[q].pc = "new"
    /\ \A p \in Requests : p < q => rq[p].pc # "new"
    /\ \E t \in NextTenants \cup {""}, p \in Payloads \cup {""} :
          /\ Invalid(t, p)
          /\ rq' = [rq EXCEPT ![q] = [NoRequest EXCEPT !.pc = "done", !.code = 400,
                                                      !.tenant = t, !.payload = p]]
    /\ UNCHANGED <<now, jobs, dlq, wk, wmet, win, totalJobs, nextId>>

NextFacade ==
    \/ \E q \in Requests : BadRequest(q) /\ UNCHANGED <<faults, ctx, hist>>
    \/ \E q \in Requests : RequestStep(q) /\ UNCHANGED <<faults, ctx, hist>>
    \/ WorkerStep(1) /\ UNCHANGED <<faults, ctx, hist>>

SpecFacade == Init /\ [][NextFacade]_vars

----------------------------------------------------------------------------
(* The API process and both worker processes over an empty store, with one
   request fewer *)

NextTwoWorkers ==
    \/ \E q \in Requests \ {NumRequests} : RequestStep(q) /\ UNCHANGED <<faults, ctx, hist>>
    \/ \E w \in Workers : WorkerStep(w) /\ UNCHANGED <<faults, ctx, hist>>

SpecTwoWorkers == Init /\ [][NextTwoWorkers]_vars

----------------------------------------------------------------------------
(* The API process and both worker processes after the first CreateJob call
   has inserted its row at time 0, with one more request, under a clock that
   advances up to MaxTime while a lease is outstanding; worker 2 may be killed, and the row
   it held stays RUNNING *)

InitStuck ==
    /\ now = 0
    /\ jobs \in [{1} -> {NewRow("t1", "", p, m, 0) : p \in Payloads, m \in 0..MaxM}]
    /\ dlq = {}
    /\ wk = [w \in Workers |-> Idle("poll")]
    /\ wmet = [w \in Workers |-> ZeroMetrics]
    /\ rq = [q \in Requests |->
                IF q = 1 THEN [NoRequest EXCEPT !.pc = "done", !.tenant = "t1", !.code = 201,
                                                !.id = 1, !.how = "inserted"]
                         ELSE NoRequest]
    /\ win = [t \in Tenants |-> IF t = "t1" THEN Advanced(Null, 0) ELSE Null]
    /\ totalJobs = 1
    /\ nextId = 2
    /\ faults = 0
    /\ ctx = [w \in Workers |-> FALSE]
    /\ hist = InitHist(jobs)

NextStuck ==
    \/ \E q \in Requests \ {NumRequests} : RequestStep(q) /\ UNCHANGED <<faults, ctx, hist>>
    \/ \E w \in Workers : WorkerStep(w) /\ UNCHANGED <<faults, ctx, hist>>
    \/ \E w \in Workers : Kill(w)
    \/ now < MaxTime /\ TickWhileLeased

SpecStuck == InitStuck /\ [][NextStuck]_vars

----------------------------------------------------------------------------
(* The rate limiter alone, under a running clock: hist.calls is the log of
   the CheckSubmissionRate calls made, each with its tenant, the time.Now()
   it read and whether it returned nil *)

InitLimiter ==
    /\ now = 0
    /\ jobs = <<>>
    /\ dlq = {}
    /\ wk = <<>>
    /\ wmet = <<>>
    /\ rq = <<>>
    /\ win = [t \in Tenants |-> Null]
    /\ totalJobs = 0
    /\ nextId = 1
    /\ faults = 0
    /\ ctx = <<>>
    /\ hist = [calls |-> <<>>]

\* one call of CheckSubmissionRate, under the limiter's mutex
CheckSubmissionRate(tenant) ==
    /\ Len(hist.calls) < NumCalls
    /\ win' = IF SubmissionRefused(tenant) THEN win ELSE Counted(tenant)
    /\ hist' = [calls |-> Append(hist.calls,
                                 [tenant |-> tenant, at |-> now,
                                  ok |-> ~SubmissionRefused(tenant)])]
    /\ UNCHANGED <<now, jobs, dlq, wk, wmet, rq, totalJobs, nextId, faults, ctx>>

NextLimiter ==
    \/ \E t \in Tenants : CheckSubmissionRate(t)
    \/ Tick /\ UNCHANGED <<faults, ctx, hist>>

SpecLimiter == InitLimiter /\ [][NextLimiter]_vars

----------------------------------------------------------------------------
(* The Metrics of one process, shared by its goroutines, each Increment taken
   apart into Lock, the load and the store of counter++, and the deferred
   Unlock. wmet is the Metrics struct, wk the goroutines; hist counts, per
   counter, the Increment calls started and returned, and the outcome decisions
   made by processJob *)

Goroutines == 1..NumGoroutines

CounterNames == {"total_jobs", "completed_jobs", "failed_jobs", "retried_jobs"}

\* the counters processJob and handleJobFailure increment, one per outcome
OutcomeCounters == {"completed_jobs", "failed_jobs", "retried_jobs"}

RECURSIVE SumOver(_, _)
SumOver(f, S) ==
    IF S = {} THEN 0
    ELSE LET x == CHOOSE x \in S : TRUE IN f[x] + SumOver(f, S \ {x})

InitMetrics ==
    /\ now = 0
    /\ jobs = <<>>
    /\ dlq = {}
    /\ wk = [g \in Goroutines |-> [pc |-> "idle", counter |-> "", reg |-> 0]]
    /\ wmet = [mu |-> 0, total_jobs |-> 0, completed_jobs |-> 0, failed_jobs |-> 0,
               retried_jobs |-> 0]
    /\ rq = <<>>
    /\ win = <<>>
    /\ totalJobs = 0
    /\ nextId = 1
    /\ faults = 0
    /\ ctx = <<>>
    /\ hist = [started |-> [c \in CounterNames |-> 0],
               returned |-> [c \in CounterNames |-> 0],
               decisions |-> 0]

\* a mutex that excludes nobody
NeverLocked == FALSE

\* sync.RWMutex: held by a writer
Locked == wmet.mu # 0

\* goroutine g calls Increment<c>: IncrementTotalJobs after an INSERT of
\* CreateJob; one of the other three after the store write of an outcome
\* decision of processJob
Increment(g, c) ==
    /\ wk[g].pc = "idle"
    /\ SumOver(hist.started, CounterNames) < MaxIncrements
    /\ c \in OutcomeCounters => hist.decisions < MaxIncrements
    /\ wk' = [wk EXCEPT ![g] = [pc |-> "lock", counter |-> c, reg |-> 0]]
    /\ hist' = [hist EXCEPT !.started[c] = @ + 1,
                            !.decisions = IF c \in OutcomeCounters THEN @ + 1 ELSE @]
    /\ UNCHANGED <<now, jobs, dlq, wmet, rq, win, totalJobs, nextId, faults, ctx>>

\* processJob: the store write of the outcome fails; it logs and returns
\* without an Increment
OutcomeNotWritten(g) ==
    /\ wk[g].pc = "idle"
    /\ hist.decisions < MaxIncrements
    /\ hist' = [hist EXCEPT !.decisions = @ + 1]
    /\ UNCHANGED <<now, jobs, dlq, wk, wmet, rq, win, totalJobs, nextId, faults, ctx>>

\* m.mu.Lock()
Lock(g) ==
    /\ wk[g].pc = "lock"
    /\ ~Locked
    /\ wmet' = [wmet EXCEPT !.mu = g]
    /\ wk' = [wk EXCEPT ![g].pc = "load"]
    /\ UNCHANGED <<now, jobs, dlq, rq, win, totalJobs, nextId, faults, ctx, hist>>

\* counter++, the read
Load(g) ==
    /\ wk[g].pc = "load"
    /\ wk' = [wk EXCEPT ![g].pc = "store", ![g].reg = wmet[wk[g].counter]]
    /\ UNCHANGED <<now, jobs, dlq, wmet, rq, win, totalJobs, nextId, faults, ctx, hist>>

\* counter++, the write
Store(g) ==
    /\ wk[g].pc = "store"
    /\ wmet' = [wmet EXCEPT ![wk[g].counter] = wk[g].reg + 1]
    /\ wk' = [wk EXCEPT ![g].pc = "unlock"]
    /\ UNCHANGED <<now, jobs, dlq, rq, win, totalJobs, nextId, faults, ctx, hist>>

\* defer m.mu.Unlock(); the call returns
Unlock(g) ==
    /\ wk[g].pc = "unlock"
    /\ wmet' = [wmet EXCEPT !.mu = 0]
    /\ wk' = [wk EXCEPT ![g] = [pc |-> "idle", counter |-> "", reg |-> 0]]
    /\ hist' = [hist EXCEPT !.returned[wk[g].counter] = @ + 1]
    /\ UNCHANGED <<now, jobs, dlq, rq, win, totalJobs, nextId, faults, ctx>>

NextMetrics ==
    \/ \E g \in Goroutines : \E c \in CounterNames : Increment(g, c)
    \/ \E g \in Goroutines : OutcomeNotWritten(g)
    \/ \E g \in Goroutines : Lock(g)
    \/ \E g \in Goroutines : Load(g)
    \/ \E g \in Goroutines : Store(g)
    \/ \E g \in Goroutines : Unlock(g)

SpecMetrics == InitMetrics /\ [][NextMetrics]_vars

----------------------------------------------------------------------------
(* Properties *)

\* worker w holds job i: LeaseJob returned it and the outcome is not yet written
Holder(w, i) == wk[w].pc \in {"handling", "resetting"} /\ wk[w].job.id = i

InDlq(i) == \E d \in dlq : d.job_id = i

IsDone(i) == i \in DOMAIN jobs /\ jobs[i].status = StatusDone

Terminal(i) == IsDone(i) \/ InDlq(i)

\* row i is RUNNING and no worker holds it (its worker was killed, or gave up)
Orphaned(i) ==
    /\ i \in DOMAIN jobs
    /\ jobs[i].status = StatusRunning
    /\ \A w \in Workers : ~Holder(w, i)

\* the DLQ rows of job i
DlqOf(i) == {d \in dlq : d.job_id = i}

\* worker w's SELECT picked row i in this step
Selected(w, i) == wk[w].pc = "poll" /\ wk'[w].pc = "leasing" /\ wk'[w].job.id = i

\* C1: of the LeaseJob calls whose SELECT observed one row as leasable, at
\* most one returns it: a call returns a row only if no other call has returned
\* that row since its SELECT, and the row is then still as observed and leasable.
C1_GrantedOnce ==
    \A w \in Workers :
        Granted(w) => /\ ~wk[w].taken
                      /\ wk[w].job.id \in DOMAIN jobs
                      /\ wk[w].seen = Some(jobs[wk[w].job.id])
                      /\ Leasable(jobs[wk[w].job.id], Unix(wk[w].txNow))

C1_LeaseSerializable == [][C1_GrantedOnce]_vars

\* two LeaseJob calls observed the same row; one returned it, the other has not
\* returned yet
C1_Witness ==
    \E w, v \in Workers :
        /\ wk[w].pc = "handling" /\ wk[v].pc = "leasing"
        /\ wk[v].job.id = wk[w].job.id /\ wk[v].seen = wk[w].seen
        /\ wk[v].taken

\* C2: with no handler outliving its lease, every job gets one terminal outcome,
\* DONE or DLQ: the outcome is written at most once and a job is terminal iff it
\* was written; a terminal job's row and DLQ rows never change again; and every
\* job eventually is terminal.
C2_OneOutcome ==
    \A i \in AllIds :
        /\ hist.outcomes[i] <= 1
        /\ Terminal(i) <=> hist.outcomes[i] = 1
        /\ ~(IsDone(i) /\ InDlq(i))
        /\ Cardinality(DlqOf(i)) <= 1

C2_TerminalIsStable ==
    \A i \in AllIds :
        Terminal(i) =>
            /\ (i \in DOMAIN jobs) <=> (i \in DOMAIN jobs')
            /\ i \in DOMAIN jobs => jobs'[i] = jobs[i]
            /\ {d \in dlq' : d.job_id = i} = DlqOf(i)

C2_AllTerminal == \A i \in AllIds : Terminal(i)

C2_ExactlyOnce ==
    /\ []C2_OneOutcome
    /\ [][C2_TerminalIsStable]_vars
    /\ <>C2_AllTerminal

\* every job is terminal, one of them after a lease of a killed worker ran out
C2_Witness ==
    /\ C2_AllTerminal
    /\ \E i \in AllIds : hist.attempts[i] = 2 /\ hist.bumps[i] = 0 /\ faults = 0
    /\ \E i \in AllIds : InDlq(i)

\* C3: every row of the jobs table has 0 <= retry_count <= max_retries.
C3_RetryCountBounded ==
    \A i \in DOMAIN jobs :
        0 <= jobs[i].retry_count /\ jobs[i].retry_count <= jobs[i].max_retries

\* C4: every RUNNING row has leased_at and lease_expires_at set, with
\* lease_expires_at > leased_at.
C4_RunningHasLease ==
    \A i \in DOMAIN jobs :
        jobs[i].status = StatusRunning =>
            /\ Valid(jobs[i].leased_at)
            /\ Valid(jobs[i].lease_expires_at)
            /\ jobs[i].lease_expires_at[1] > jobs[i].leased_at[1]

\* a row leased at an odd tick (the clock is inside a second), and re-leased later
C4_Witness ==
    \E i \in DOMAIN jobs :
        /\ jobs[i].status = StatusRunning
        /\ jobs[i].leased_at[1] > 0
        /\ \E w \in Workers : Holder(w, i) /\ wk[w].txNow % TicksPerSec # 0

\* C5: any two rows of the jobs table with the same tenant_id and the same
\* non-null idempotency_key are the same row.
C5_KeyIsUnique ==
    \A i, k \in DOMAIN jobs :
        (/\ jobs[i].tenant_id = jobs[k].tenant_id
         /\ Valid(jobs[i].idempotency_key)
         /\ jobs[i].idempotency_key = jobs[k].idempotency_key) => i = k

\* the finished CreateJob calls for (tenant, key), and those that inserted a row
CallsFor(t, k) ==
    {q \in Requests : rq[q].pc = "done" /\ rq[q].tenant = t /\ rq[q].key = k}

Winners(t, k) == {q \in CallsFor(t, k) : rq[q].how = "inserted"}

\* a row inserted for (tenant, key) has left the jobs table (moved to the DLQ)
KeyFreed(t, k) == \E q \in Winners(t, k) : rq[q].id \notin DOMAIN jobs

\* a keyed row was dead-lettered and its key was inserted again: one live row;
\* the same key is live under the other tenant too
C5_Witness ==
    \E q1, q2, q3 \in Requests :
        /\ rq[q1].how = "inserted" /\ rq[q1].key # "" /\ rq[q1].id \notin DOMAIN jobs
        /\ rq[q2].how = "inserted" /\ rq[q2].id \in DOMAIN jobs
        /\ rq[q2].tenant = rq[q1].tenant /\ rq[q2].key = rq[q1].key
        /\ rq[q3].how = "inserted" /\ rq[q3].id \in DOMAIN jobs
        /\ rq[q3].tenant # rq[q1].tenant /\ rq[q3].key = rq[q1].key

\* C6: of the CreateJob calls for one (tenant, key) that passed the
\* rate checks and met no store error, exactly one inserted a row, none came
\* back with the duplicate error, and all returned the same job id.
SameJob(t, k) ==
    LET served == {q \in CallsFor(t, k) : rq[q].code = 201} IN
    /\ \A q \in CallsFor(t, k) : rq[q].dup => rq[q].code # 409
    /\ served # {} =>
          /\ Cardinality(Winners(t, k)) = 1
          /\ \A q \in served : \A p \in Winners(t, k) : rq[q].id = rq[p].id

C6_AllReturnSameJob ==
    \A t \in Tenants, k \in Keys \ {""} : SameJob(t, k)

\* the calls for one key disagree only after a row inserted for it was moved
\* to the DLQ
SameJobWhileRowLives ==
    \A t \in Tenants, k \in Keys \ {""} : ~KeyFreed(t, k) => SameJob(t, k)

\* C7: no job id is both a row of jobs and the job_id of a DLQ row; a step that
\* inserts a DLQ row leaves the job out of the jobs table, and a row leaves the
\* jobs table only in a step that inserts its DLQ row; a refused
\* MoveToDeadLetterQueue changes neither table.
C7_NeverInBoth == \A d \in dlq : d.job_id \notin DOMAIN jobs

C7_MoveIsWhole ==
    /\ \A d \in dlq' \ dlq : d.job_id \notin DOMAIN jobs'
    /\ \A i \in DOMAIN jobs \ DOMAIN jobs' : \E d \in dlq' \ dlq : d.job_id = i
    /\ dlq \subseteq dlq'

C7_MoveToDLQAtomic == []C7_NeverInBoth /\ [][C7_MoveIsWhole]_vars

C7_Witness ==
    \E d \in dlq : d.job_id \notin DOMAIN jobs /\ DOMAIN jobs # {}

\* C8: with no overrun and no store failure, a job whose handler always fails,
\* created with max_retries = m, is leased at most m + 1 times; each failure
\* with retries left adds exactly 1 to retry_count and then resets the row to
\* PENDING; the job is moved to the DLQ by its (m+1)-th failure, after exactly m
\* increments and m resets (none for m = 0); and it does end in the DLQ.
AlwaysFails(i) == hist.created[i].payload = "fail"

C8_Counts ==
    \A i \in AllIds :
        AlwaysFails(i) =>
            LET m == hist.created[i].max_retries
                resetting == Cardinality({w \in Workers : wk[w].pc = "resetting"
                                                      /\ wk[w].job.id = i})
            IN  /\ hist.attempts[i] <= m + 1
                /\ hist.bumps[i] <= m
                /\ hist.bumps[i] = hist.resets[i] + resetting
                /\ i \in DOMAIN jobs => jobs[i].retry_count = hist.bumps[i]
                /\ InDlq(i) => /\ hist.attempts[i] = m + 1
                               /\ hist.bumps[i] = m
                               /\ hist.resets[i] = m
                               /\ hist.outcomes[i] = 1
                               /\ i \notin DOMAIN jobs

C8_Steps ==
    \A w \in Workers :
        LET i == wk[w].job.id IN
        /\ Bumped(w) => /\ jobs'[i].retry_count = jobs[i].retry_count + 1
                        /\ jobs'[i].status = StatusRunning
        /\ ResetDone(w) => /\ jobs'[i].retry_count = jobs[i].retry_count
                           /\ jobs'[i].status = StatusPending

C8_AllDeadLettered == \A i \in AllIds : AlwaysFails(i) => InDlq(i)

C8_RetriesThenDLQ ==
    /\ []C8_Counts
    /\ [][C8_Steps]_vars
    /\ <>C8_AllDeadLettered

\* a failing job with max_retries 0 and one with max_retries MaxM, both in the DLQ
C8_Witness ==
    \E i, k \in AllIds :
        /\ AlwaysFails(i) /\ hist.created[i].max_retries = 0
        /\ InDlq(i) /\ hist.attempts[i] = 1 /\ hist.resets[i] = 0
        /\ AlwaysFails(k) /\ hist.created[k].max_retries = MaxM
        /\ InDlq(k) /\ hist.attempts[k] = MaxM + 1 /\ hist.resets[k] = MaxM

\* C9: a row whose worker died (or gave up) after leasing it stays in the jobs
\* table, RUNNING and unchanged, and no LeaseJob picks it while
\* lease_expires_at >= now; the only step that changes it is a LeaseJob of a
\* call that read the clock after lease_expires_at, which returns the same row
\* with the retry_count it had; and the SELECT of LeaseJob matches such a row
\* exactly when lease_expires_at < now.
LeaseLive(i) == jobs[i].lease_expires_at[1] >= Unix(now)

C9_OrphanWaits ==
    \A i \in AllIds :
        Orphaned(i) =>
            /\ i \in DOMAIN jobs'
            /\ LeaseLive(i) => /\ jobs'[i] = jobs[i]
                               /\ \A w \in Workers : ~Selected(w, i)
            /\ jobs'[i] # jobs[i] =>
                  \E w \in Workers :
                      /\ Granted(w) /\ wk[w].job.id = i
                      /\ jobs[i].lease_expires_at[1] < Unix(wk[w].txNow)
                      /\ jobs'[i].status = StatusRunning
                      /\ jobs'[i].retry_count = jobs[i].retry_count
                      /\ wk'[w].job.retry_count = jobs[i].retry_count

C9_LeasableOnceExpired ==
    \A i \in AllIds :
        Orphaned(i) => (Leasable(jobs[i], Unix(now)) <=> ~LeaseLive(i))

C9_CrashedLeaseReleased == [][C9_OrphanWaits]_vars /\ []C9_LeasableOnceExpired

\* worker 2 was killed holding row i before any write; worker 1 now holds it
C9_Witness ==
    \E i \in AllIds :
        /\ wk[2].pc = "crashed" /\ wmet[2] = ZeroMetrics /\ faults = 0
        /\ Holder(1, i)
        /\ hist.attempts[i] = 2 /\ hist.bumps[i] = 0
        /\ jobs[i].retry_count = 0
        /\ jobs[i].leased_at[1] > LeaseSecs

\* C10: with the clock advancing and the live workers running, every job ends
\* DONE or in the DLQ and stays so, and a RUNNING row whose worker was killed
\* or gave up is leased again.
C10_AllTerminal == \A i \in AllIds : Terminal(i)

C10_OrphanReleased ==
    \A i \in JobIds : Orphaned(i) ~> \E w \in Workers : Holder(w, i)

C10_NoJobLost == <>[]C10_AllTerminal /\ C10_OrphanReleased

\* the job was leased by worker 2, which was killed before any write; it was
\* leased again and is terminal
C10_Witness ==
    /\ wk[2].pc = "crashed" /\ wmet[2] = ZeroMetrics /\ faults = 0
    /\ hist.attempts[1] >= 2
    /\ Terminal(1)
    /\ wmet[1].completed_jobs + wmet[1].failed_jobs = 1

\* the step is a CheckSubmissionRate call of tenant t, and what it returned
Called(t) ==
    /\ Len(hist'.calls) = Len(hist.calls) + 1
    /\ hist'.calls[Len(hist'.calls)].tenant = t

ReturnedNil == hist'.calls[Len(hist'.calls)].ok

\* the admitted calls of tenant t made from time from to time to
AdmittedIn(t, from, to) ==
    {j \in DOMAIN hist.calls :
        /\ hist.calls[j].tenant = t /\ hist.calls[j].ok
        /\ from <= hist.calls[j].at /\ hist.calls[j].at <= to}

\* tenant t has a window and the clock has not passed its end
InWindow(t) == Valid(win[t]) /\ now <= win[t][1].windowEnd

\* C11: within one window of a tenant (opened by an admitted call, one
\* window long) at most maxSubmissionsPerMinute calls of the tenant are
\* admitted; a call inside the window is admitted iff fewer than that many were
\* admitted in it; the first call after the window's end is admitted and opens
\* a new window with count 1.
C11_WindowHoldsLimit ==
    \A t \in Tenants :
        Valid(win[t]) =>
            LET e == win[t][1].windowEnd
                n == Cardinality(AdmittedIn(t, e - window, e))
            IN  /\ n <= maxSubmissionsPerMinute
                /\ n = win[t][1].count
                /\ n >= 1

C11_CallDecided ==
    \A t \in Tenants :
        Called(t) =>
            IF InWindow(t)
            THEN LET e == win[t][1].windowEnd
                     n == Cardinality(AdmittedIn(t, e - window, e))
                 IN  /\ ReturnedNil <=> n < maxSubmissionsPerMinute
                     /\ win'[t][1].windowEnd = e
                     /\ ~ReturnedNil => win' = win
            ELSE /\ ReturnedNil
                 /\ win'[t] = Some([count |-> 1, windowEnd |-> now + window])

C11_SubmissionRateLimited == []C11_WindowHoldsLimit /\ [][C11_CallDecided]_vars

\* a tenant used up its window, was refused in it, and was admitted again
\* after the window's end
C11_Witness ==
    \E t \in Tenants : \E j, k \in DOMAIN hist.calls :
        /\ j < k /\ k = Len(hist.calls)
        /\ hist.calls[j].tenant = t /\ ~hist.calls[j].ok
        /\ hist.calls[k].tenant = t /\ hist.calls[k].ok
        /\ win[t][1].count = 1
        /\ Cardinality(AdmittedIn(t, 0, hist.calls[j].at)) = maxSubmissionsPerMinute

\* the clock reads exactly the end of tenant t's window, whose count is at the
\* limit
FullAtWindowEnd(t) ==
    /\ Valid(win[t])
    /\ now = win[t][1].windowEnd
    /\ win[t][1].count >= maxSubmissionsPerMinute

\* C12, as stated: a call made at now = windowEnd with the count at the limit
\* is admitted and opens the next window.
C12_OpensAtWindowEnd ==
    \A t \in Tenants :
        Called(t) /\ FullAtWindowEnd(t) =>
            /\ ReturnedNil
            /\ win'[t] = Some([count |-> 1, windowEnd |-> now + window])

C12_AdmittedAtWindowEnd == [][C12_OpensAtWindowEnd]_vars

\* C12, amended: a call made at now = windowEnd with the count at the limit is
\* refused and leaves the window as it is.
C12_StaysAtWindowEnd ==
    \A t \in Tenants :
        Called(t) /\ FullAtWindowEnd(t) => ~ReturnedNil /\ win' = win

C12_RefusedAtWindowEnd == [][C12_StaysAtWindowEnd]_vars

\* the last call was made at the end of its tenant's full window, after the
\* window's first instant, and was refused
C12_Witness ==
    /\ hist.calls # <<>>
    /\ LET c == hist.calls[Len(hist.calls)] IN
       /\ ~c.ok
       /\ c.at = now
       /\ FullAtWindowEnd(c.tenant)

\* the calls tenant t made, in order
CallsOf(t) == SelectSeq(hist.calls, LAMBDA c : c.tenant = t)

\* the window of a limiter that served the first n of the calls cs and nothing
\* else
RECURSIVE Alone(_, _)
Alone(cs, n) ==
    IF n = 0 THEN Null
    ELSE LET w == Alone(cs, n - 1) IN
         IF ~Expired(w, cs[n].at) /\ AtLimit(w) THEN w ELSE Advanced(w, cs[n].at)

\* C13: the windows are per tenant: a call of one tenant leaves every other
\* tenant's window and count as they were, and each tenant's window and each
\* result it got are those of a limiter that served this tenant's calls only.
C13_OthersUntouched ==
    \A a \in Tenants : Called(a) => \A b \in Tenants \ {a} : win'[b] = win[b]

C13_AsIfAlone ==
    \A t \in Tenants :
        LET cs == CallsOf(t) IN
        /\ win[t] = Alone(cs, Len(cs))
        /\ \A n \in 1..Len(cs) :
              LET w == Alone(cs, n - 1) IN
              cs[n].ok <=> (Expired(w, cs[n].at) \/ ~AtLimit(w))

C13_WindowsPerTenant == [][C13_OthersUntouched]_vars /\ []C13_AsIfAlone

\* one tenant was refused in its full window; the other then made its first
\* call, at the same instant, and was admitted
C13_Witness ==
    \E j, k \in DOMAIN hist.calls :
        /\ j < k /\ k = Len(hist.calls)
        /\ ~hist.calls[j].ok
        /\ hist.calls[k].ok
        /\ hist.calls[k].tenant # hist.calls[j].tenant
        /\ hist.calls[k].at = hist.calls[j].at
        /\ Len(CallsOf(hist.calls[k].tenant)) = 1
        /\ AtLimit(win[hist.calls[j].tenant])

\* request q is refused with ErrRateLimitExceeded in this step
Refused(q) == rq[q].pc # "done" /\ rq'[q].pc = "done" /\ rq'[q].code = 429

\* request q gets the count of GetRunningJobsCountByTenant in this step
Counts(q) == rq[q].pc = "count" /\ rq'[q] # rq[q] /\ rq'[q].code # 500

\* C14: a CreateJob call that passed the submission-rate check and found no row
\* for its key is refused with RateLimitExceeded exactly when the store counts
\* maxConcurrentRunning or more RUNNING rows of its tenant; the refused call
\* inserts no row and leaves total_jobs, then and later; a call that passed the
\* count is not refused any more.
C14_RefusedAtLimit ==
    \A q \in Requests :
        /\ Counts(q) =>
              /\ Refused(q) <=> RunningCount(rq[q].tenant) >= maxConcurrentRunning
              /\ ~Refused(q) => rq'[q].pc = "insert"
        /\ Refused(q) => jobs' = jobs /\ totalJobs' = totalJobs /\ rq'[q].id = 0
        /\ rq[q].pc \in {"insert", "refetch"} => ~Refused(q)
        /\ rq[q].pc = "done" => rq'[q] = rq[q]

C14_ConcurrentLimit == [][C14_RefusedAtLimit]_vars

\* a call of a tenant within its submission rate was refused while a row of
\* the tenant is RUNNING; nothing was inserted for it
C14_Witness ==
    \E q \in Requests :
        LET t == rq[q].tenant IN
        /\ rq[q].pc = "done" /\ rq[q].code = 429
        /\ Cardinality({p \in Requests : rq[p].tenant = t}) <= maxSubmissionsPerMinute
        /\ RunningCount(t) >= maxConcurrentRunning
        /\ totalJobs = 1 /\ Cardinality(DOMAIN jobs) = 1

\* the rows of the jobs table that carry request q's tenant and idempotency key
RowsOfKey(q) ==
    {i \in DOMAIN jobs : /\ jobs[i].tenant_id = rq[q].tenant
                         /\ jobs[i].idempotency_key = Some(rq[q].key)}

\* request q gets the answer of GetJobByTenantAndIdempotencyKey in this step
LooksUp(q) ==
    rq[q].pc \in {"lookup", "refetch"} /\ rq'[q] # rq[q] /\ rq'[q].code # 500

\* C15: a CreateJob call whose lookup is made while a row with its tenant and
\* idempotency key exists returns that row, whatever payload and max_retries
\* the request carries: the call ends there with the row's id, the jobs table
\* and total_jobs stay as they are, and no row ever changes its tenant, key,
\* payload, max_retries or created_at; a call returns an existing row only if
\* the row carries its tenant and key.
C15_ReturnsExisting ==
    /\ \A q \in Requests :
          /\ LooksUp(q) /\ RowsOfKey(q) # {} =>
                /\ rq'[q].pc = "done" /\ rq'[q].code = 201
                /\ rq'[q].id \in RowsOfKey(q)
                /\ jobs' = jobs /\ totalJobs' = totalJobs /\ nextId' = nextId
          /\ LooksUp(q) /\ rq'[q].pc = "done" /\ rq'[q].code = 201 =>
                rq'[q].id \in RowsOfKey(q)
          /\ rq[q].pc = "done" => rq'[q] = rq[q]
    /\ \A i \in DOMAIN jobs \cap DOMAIN jobs' :
          /\ jobs'[i].tenant_id = jobs[i].tenant_id
          /\ jobs'[i].idempotency_key = jobs[i].idempotency_key
          /\ jobs'[i].payload = jobs[i].payload
          /\ jobs'[i].max_retries = jobs[i].max_retries
          /\ jobs'[i].created_at = jobs[i].created_at

C15_Idempotent == [][C15_ReturnsExisting]_vars

\* two calls with one key: the first inserted the row, the second carried
\* another payload or max_retries and was given the first one's row; one row,
\* counted once
C15_Witness ==
    \E p, q \in Requests :
        /\ rq[p].how = "inserted" /\ rq[q].how = "existing"
        /\ rq[q].other
        /\ rq[q].id = rq[p].id
        /\ rq[q].tenant = rq[p].tenant /\ rq[q].key = rq[p].key
        /\ rq[q].id \in DOMAIN jobs
        /\ totalJobs = 1 /\ Cardinality(DOMAIN jobs) = 1

\* request q's CreateJob inserts its row in this step
Creates(q) == rq[q].pc = "insert" /\ rq'[q].how = "inserted"

\* C16: a job newly created by CreateJob has an id no row of jobs or of the DLQ
\* has, status PENDING, retry_count 0, no lease timestamps, the request's
\* tenant, key and payload, and the request's max_retries if given, else 3;
\* total_jobs goes up by exactly 1 with each creation and only then, and a
\* creation adds that one row and changes no other.
C16_RowAsRequested ==
    /\ \A q \in Requests :
          Creates(q) =>
              LET i == rq'[q].id IN
              /\ i \notin DOMAIN jobs /\ ~InDlq(i)
              /\ DOMAIN jobs' = DOMAIN jobs \cup {i}
              /\ \A k \in DOMAIN jobs : jobs'[k] = jobs[k]
              /\ jobs'[i].status = StatusPending
              /\ jobs'[i].retry_count = 0
              /\ jobs'[i].leased_at = Null /\ jobs'[i].lease_expires_at = Null
              /\ jobs'[i].tenant_id = rq[q].tenant
              /\ jobs'[i].payload = rq[q].payload
              /\ KeyField(jobs'[i].idempotency_key) = rq[q].key
              /\ jobs'[i].max_retries = IF rq[q].max_retries = Null THEN 3
                                        ELSE rq[q].max_retries[1]
              /\ totalJobs' = totalJobs + 1
    /\ (DOMAIN jobs' \ DOMAIN jobs # {} \/ totalJobs' # totalJobs) =>
          \E q \in Requests : Creates(q)

C16_NewJobShape == [][C16_RowAsRequested]_vars

\* every request created a row: one with the request's max_retries 0, still
\* PENDING, one with the default, and one that is in the DLQ by now
C16_Witness ==
    \E p, q \in Requests :
        /\ rq[p].how = "inserted" /\ rq[q].how = "inserted"
        /\ rq[p].id \in DOMAIN jobs /\ rq[q].id \in DOMAIN jobs
        /\ jobs[rq[p].id].max_retries = 0
        /\ jobs[rq[q].id].max_retries = DefaultMaxRetries
        /\ jobs[rq[p].id].status = StatusPending
        /\ dlq # {}
        /\ totalJobs = NumRequests

\* the Metrics of the API process: NewMetrics() starts every counter at 0 and
\* IncrementTotalJobs, in CreateJob, is the only increment the process makes
ApiMetrics ==
    [total_jobs |-> totalJobs,
     completed_jobs |-> ZeroMetrics.completed_jobs,
     failed_jobs |-> ZeroMetrics.failed_jobs,
     retried_jobs |-> ZeroMetrics.retried_jobs]

\* GET /metrics: the snapshot of the API process's Metrics
GetMetrics == ApiMetrics

\* C17: when a worker process completes a job, the completed_jobs that GET
\* /metrics of the API process returns goes up by 1; likewise retried_jobs when
\* a worker resets a job for a retry and failed_jobs when it dead-letters one.
C17_WorkerOutcomeShown ==
    \A w \in Workers :
        /\ wmet'[w].completed_jobs = wmet[w].completed_jobs + 1
              => GetMetrics'.completed_jobs = GetMetrics.completed_jobs + 1
        /\ wmet'[w].retried_jobs = wmet[w].retried_jobs + 1
              => GetMetrics'.retried_jobs = GetMetrics.retried_jobs + 1
        /\ wmet'[w].failed_jobs = wmet[w].failed_jobs + 1
              => GetMetrics'.failed_jobs = GetMetrics.failed_jobs + 1

C17_ApiMetricsFollowWorkers == [][C17_WorkerOutcomeShown]_vars

\* a counter of the Metrics, summed over the first n worker processes
RECURSIVE CounterSum(_, _)
CounterSum(counter, n) ==
    IF n = 0 THEN 0 ELSE wmet[n][counter] + CounterSum(counter, n - 1)

Counter(counter) == CounterSum(counter, NumWorkers)

\* the max_retries the jobs ids were created with, summed
RECURSIVE RetriesAllowed(_)
RetriesAllowed(ids) ==
    IF ids = {} THEN 0
    ELSE LET i == CHOOSE k \in ids : TRUE IN
         hist.created[i].max_retries + RetriesAllowed(ids \ {i})

\* C18: with no overrun and no store error, a job whose handler always fails,
\* created with max_retries = m, adds m to retried_jobs, 1 to failed_jobs and
\* nothing to completed_jobs over its life; a job whose handler succeeds adds
\* 1 to completed_jobs and nothing else; each write of a worker adds 1 to at
\* most one counter.
C18_CountersMatchJobs ==
    LET failing == {i \in AllIds : AlwaysFails(i)} IN
    /\ Counter("completed_jobs") = Cardinality({i \in AllIds : IsDone(i)})
    /\ Counter("failed_jobs") = Cardinality({i \in AllIds : InDlq(i)})
    /\ Counter("retried_jobs") <= RetriesAllowed(failing)
    /\ (\A i \in AllIds : Terminal(i)) =>
          Counter("retried_jobs") = RetriesAllowed(failing)
    /\ \A i \in AllIds :
          IF AlwaysFails(i)
          THEN /\ ~IsDone(i)
               /\ hist.resets[i] <= hist.created[i].max_retries
               /\ InDlq(i) => hist.resets[i] = hist.created[i].max_retries
          ELSE /\ ~InDlq(i)
               /\ hist.resets[i] = 0
               /\ hist.outcomes[i] = IF IsDone(i) THEN 1 ELSE 0

C18_OneCounterPerWrite ==
    \A w \in Workers :
        wmet'[w] # wmet[w] =>
            /\ \E c \in DOMAIN ZeroMetrics :
                  wmet'[w] = [wmet[w] EXCEPT ![c] = @ + 1]
            /\ wmet'[w].completed_jobs # wmet[w].completed_jobs
                  <=> ~HandlerFails(wk[w].job)
            /\ \A v \in Workers \ {w} : wmet'[v] = wmet[v]

C18_CountersPerJob == []C18_CountersMatchJobs /\ [][C18_OneCounterPerWrite]_vars

\* a failing job with max_retries MaxM is in the DLQ and a succeeding job is
\* DONE: MaxM retries, one failure and one completion were counted
C18_Witness ==
    /\ \A i \in AllIds : Terminal(i)
    /\ \E i, k \in AllIds :
          /\ AlwaysFails(i) /\ hist.created[i].max_retries = MaxM /\ InDlq(i)
          /\ ~AlwaysFails(k) /\ IsDone(k)
    /\ Counter("retried_jobs") = MaxM
    /\ Counter("failed_jobs") = 1
    /\ Counter("completed_jobs") = 1

\* C19: the successful completion of a job is recorded at most once, handlers
\* that outlive their lease included: the completed_jobs increments of the
\* workers never outnumber the DONE rows, and a worker that records a
\* completion finds its job not yet DONE.
C19_NoMoreThanDone ==
    Counter("completed_jobs")
        <= Cardinality({i \in DOMAIN jobs : jobs[i].status = StatusDone})

C19_RecordsTransition ==
    \A w \in Workers :
        wmet'[w].completed_jobs # wmet[w].completed_jobs =>
            /\ wk[w].job.id \in DOMAIN jobs
            /\ jobs[wk[w].job.id].status # StatusDone

C19_CompletedOnce == []C19_NoMoreThanDone /\ [][C19_RecordsTransition]_vars

\* C20, as stated: every row whose status is PENDING or DONE has leased_at
\* and lease_expires_at absent.
C20_LeaseOnlyWhileRunning ==
    \A i \in DOMAIN jobs :
        jobs[i].status \in {StatusPending, StatusDone} =>
            jobs[i].leased_at = Null /\ jobs[i].lease_expires_at = Null

\* C20, amended: leased_at and lease_expires_at are set together, by LeaseJob
\* only, and never cleared: every RUNNING or DONE row has both, a row has both
\* absent only while it is PENDING with retry_count 0, and a row reset to
\* PENDING or set DONE keeps the two timestamps of its last lease.
C20_SetTogether ==
    \A i \in DOMAIN jobs :
        /\ Valid(jobs[i].leased_at) <=> Valid(jobs[i].lease_expires_at)
        /\ jobs[i].status \in {StatusRunning, StatusDone} => Valid(jobs[i].leased_at)
        /\ ~Valid(jobs[i].leased_at) =>
              jobs[i].status = StatusPending /\ jobs[i].retry_count = 0

C20_OnlyLeaseJobWrites ==
    \A i \in DOMAIN jobs \cap DOMAIN jobs' :
        (\/ jobs'[i].leased_at # jobs[i].leased_at
         \/ jobs'[i].lease_expires_at # jobs[i].lease_expires_at) =>
            /\ \E w \in Workers : Granted(w) /\ wk[w].job.id = i
            /\ jobs'[i].status = StatusRunning
            /\ Valid(jobs'[i].leased_at) /\ Valid(jobs'[i].lease_expires_at)

C20_LeaseStampsKept == []C20_SetTogether /\ [][C20_OnlyLeaseJobWrites]_vars

\* a DONE row and a row reset to PENDING for a retry, each with the timestamps
\* of its last lease
C20_Witness ==
    \E i, k \in DOMAIN jobs :
        /\ jobs[i].status = StatusDone
        /\ Valid(jobs[i].leased_at) /\ Valid(jobs[i].lease_expires_at)
        /\ jobs[k].status = StatusPending /\ jobs[k].retry_count > 0
        /\ Valid(jobs[k].leased_at) /\ Valid(jobs[k].lease_expires_at)

\* C21: a job whose attempt failed with retries left is FAILED at some point
\* after that attempt: a row whose retry_count was incremented becomes FAILED.
C21_FailedAfterAttempt ==
    \A i \in JobIds :
        (i \in DOMAIN jobs /\ jobs[i].retry_count > 0)
            ~> (i \in DOMAIN jobs /\ jobs[i].status = StatusFailed)

\* GET /jobs/{id}: GetJobByID, where no row is sql.ErrNoRows, which
\* JobService.GetJob turns into ErrJobNotFound and the handler into 404
GetJob(id) ==
    IF id \in DOMAIN jobs
    THEN [code |-> 200, job |-> jobs[id]]
    ELSE [code |-> 404, job |-> NoJob]

\* C22: once a job is in the DLQ, GetJob on its id returns 404, and the step
\* that moved it left a DLQ row with the job's id as job_id, the job's tenant_id
\* and payload and the failure_reason "max retries exceeded: " followed by the
\* handler's reason; DLQ rows stay as they are.
C22_NotFoundOnceMoved ==
    \A d \in dlq :
        /\ GetJob(d.job_id).code = 404
        /\ d.failure_reason = "max retries exceeded: " \o HandlerReason

C22_RowCopied ==
    /\ \A i \in DOMAIN jobs \ DOMAIN jobs' :
          \E d \in dlq' \ dlq : /\ d.job_id = i
                                /\ d.tenant_id = jobs[i].tenant_id
                                /\ d.payload = jobs[i].payload
    /\ \A d \in dlq' \ dlq :
          d.job_id \notin DOMAIN jobs =>
              \E e \in dlq : /\ e.job_id = d.job_id
                             /\ e.tenant_id = d.tenant_id
                             /\ e.payload = d.payload
    /\ dlq \subseteq dlq'

C22_DeadLetteredJobGone == []C22_NotFoundOnceMoved /\ [][C22_RowCopied]_vars

\* one job is in the DLQ and GetJob does not find it; the other is DONE and
\* GetJob returns it
C22_Witness ==
    /\ \E d \in dlq : GetJob(d.job_id).code = 404 /\ d.payload = "fail"
    /\ \E i \in DOMAIN jobs : GetJob(i).code = 200 /\ GetJob(i).job.status = StatusDone

\* C23: once its context is cancelled a worker leases no job: no LeaseJob of
\* it begins or returns a row; it leaves the loop only at the select at the top
\* of an iteration, so a handler in flight at the cancellation runs to its end;
\* it has then stopped for good; and it does stop.
C23_NoLeaseOnceCancelled ==
    \A w \in Workers :
        ctx[w] => /\ ~Granted(w)
                  /\ \A i \in DOMAIN jobs : ~Selected(w, i)
                  /\ wk'[w].pc \in {"leasing", "handling"} => wk'[w].pc = wk[w].pc

C23_ExitsAtLoopTop ==
    \A w \in Workers :
        /\ (wk'[w].pc = "stopped" /\ wk[w].pc # "stopped") =>
              ctx[w] /\ wk[w].pc = "poll"
        /\ (ctx'[w] /\ ~ctx[w] /\ wk[w].pc \in {"handling", "resetting"}) =>
              wk'[w] = wk[w]
        /\ wk[w].pc = "stopped" => wk'[w] = wk[w]

C23_Stops == \A w \in Workers : ctx[w] ~> wk[w].pc = "stopped"

C23_CancelStopsLoop ==
    /\ [][C23_NoLeaseOnceCancelled]_vars
    /\ [][C23_ExitsAtLoopTop]_vars
    /\ C23_Stops

\* worker 1 was cancelled while its handler ran and has stopped; the job it
\* held was left RUNNING and worker 2 leased it again after the lease ran out
C23_Witness ==
    /\ ctx[1] /\ wk[1].pc = "stopped" /\ wmet[1] = ZeroMetrics
    /\ ~ctx[2]
    /\ \E i \in DOMAIN jobs :
          /\ Holder(2, i)
          /\ jobs[i].leased_at[1] > LeaseSecs
          /\ \A k \in DOMAIN jobs : jobs[k].status # StatusPending

\* request q's INSERT gets its answer from the store in this step
Inserts(q) == rq[q].pc = "insert" /\ rq'[q] # rq[q] /\ rq'[q].code # 500

\* C24: a CreateJob call without an idempotency key never conflicts: it is
\* never looked up, never meets the duplicate error and never gets another
\* call's row, and its INSERT creates a new row whatever rows exist; an INSERT
\* with a key creates a new row whenever no row of the same tenant has the key,
\* whatever rows other tenants have; the rows created by different calls
\* are different rows.
C24_KeylessIsNew ==
    /\ \A q \in Requests :
          (rq[q].pc # "new" /\ rq[q].key = "") =>
              /\ rq[q].pc \notin {"lookup", "refetch"}
              /\ ~rq[q].dup /\ rq[q].code # 409
              /\ rq[q].how \in {"", "inserted"}
    /\ \A p, q \in Requests :
          (p # q /\ rq[p].how = "inserted" /\ rq[q].how = "inserted") =>
              rq[p].id # rq[q].id

C24_InsertGoesThrough ==
    \A q \in Requests :
        Inserts(q) =>
            /\ rq[q].key = "" => Creates(q)
            /\ (\A i \in DOMAIN jobs : \/ jobs[i].tenant_id # rq[q].tenant
                                       \/ jobs[i].idempotency_key # Some(rq[q].key))
                  => Creates(q)

C24_NoKeyNoConflict == []C24_KeylessIsNew /\ [][C24_InsertGoesThrough]_vars

\* two calls of one tenant without a key each created a row, both still in
\* the table with the same payload and max_retries
C24_Witness ==
    \E p, q \in Requests :
        /\ p # q
        /\ rq[p].how = "inserted" /\ rq[q].how = "inserted"
        /\ rq[p].key = "" /\ rq[q].key = ""
        /\ rq[p].tenant = rq[q].tenant
        /\ rq[p].id \in DOMAIN jobs /\ rq[q].id \in DOMAIN jobs
        /\ jobs[rq[p].id].payload = jobs[rq[q].id].payload
        /\ jobs[rq[p].id].max_retries = jobs[rq[q].id].max_retries
        /\ jobs[rq[p].id].idempotency_key = Null

\* request q gets the answer of the re-fetch in this step
Refetches(q) == rq[q].pc = "refetch" /\ rq'[q] # rq[q]

\* C25: an INSERT refused with the duplicate error is followed by the re-fetch;
\* a re-fetch that finds the row ends the call with 201 and that row's id,
\* changing nothing; a 409 goes out only from a re-fetch that found no row,
\* and only after the duplicate error.
C25_RefetchDecides ==
    \A q \in Requests :
        /\ (Inserts(q) /\ ~Creates(q)) =>
              /\ rq'[q].pc = "refetch" /\ rq'[q].dup
              /\ RowsOfKey(q) # {}
              /\ jobs' = jobs /\ totalJobs' = totalJobs
        /\ (Refetches(q) /\ RowsOfKey(q) # {}) =>
              /\ rq'[q].pc = "done" /\ rq'[q].code \in {201, 500}
              /\ rq'[q].code = 201 => rq'[q].id \in RowsOfKey(q)
              /\ jobs' = jobs /\ totalJobs' = totalJobs
        /\ (rq'[q].code = 409 /\ rq[q].code # 409) =>
              Refetches(q) /\ RowsOfKey(q) = {} /\ rq[q].dup

C25_DuplicateHandled == [][C25_RefetchDecides]_vars

\* a call lost the race for its key at the INSERT and was given the winner's
\* row by the re-fetch
C25_Witness ==
    \E p, q \in Requests :
        /\ rq[q].dup /\ rq[q].how = "refetched" /\ rq[q].code = 201
        /\ rq[p].how = "inserted" /\ rq[p].id = rq[q].id
        /\ rq[p].tenant = rq[q].tenant /\ rq[p].key = rq[q].key
        /\ totalJobs = 1

\* the rows the claim calls eligible at the second nowUnix
C26_Eligible(r, nowUnix) ==
    \/ r.status = StatusPending
    \/ /\ r.status = StatusRunning
       /\ Valid(r.lease_expires_at)
       /\ r.lease_expires_at[1] < nowUnix

\* row i is eligible at nowUnix and no eligible row is strictly older
C26_OldestEligible(i, nowUnix) ==
    /\ i \in DOMAIN jobs
    /\ C26_Eligible(jobs[i], nowUnix)
    /\ jobs[i].status # StatusDone
    /\ \A k \in DOMAIN jobs :
          C26_Eligible(jobs[k], nowUnix) => jobs[k].created_at >= jobs[i].created_at

\* C26: the row the SELECT of LeaseJob picks, and the row LeaseJob returns, is
\* PENDING or RUNNING with lease_expires_at before the second LeaseJob read,
\* and no eligible row has a strictly earlier created_at; LeaseJob returns nil
\* only when no row is eligible, and then the store is left as it was.
C26_LeaseStep ==
    \A w \in Workers :
        /\ (wk[w].pc = "poll" /\ wk'[w].pc = "leasing") =>
              /\ C26_OldestEligible(wk'[w].job.id, Unix(now))
              /\ wk'[w].txNow = now
              /\ jobs' = jobs
        /\ (wk[w].pc = "leasing" /\ wk'[w].pc = "handling") =>
              /\ C26_OldestEligible(wk[w].job.id, Unix(wk[w].txNow))
              /\ wk'[w].job.id = wk[w].job.id
              /\ \A k \in DOMAIN jobs : k # wk[w].job.id => jobs'[k] = jobs[k]
              /\ DOMAIN jobs' = DOMAIN jobs
        /\ (wk[w].pc = "poll" /\ wk'[w].pc = "sleep") =>
              /\ \A k \in DOMAIN jobs : ~C26_Eligible(jobs[k], Unix(now))
              /\ jobs' = jobs /\ dlq' = dlq
        /\ (wk[w].pc = "poll" /\ wk'[w].pc = "poll")  => wk'[w] = wk[w]

C26_LeaseOldestEligible == [][C26_LeaseStep]_vars

\* LeaseJob has returned an expired RUNNING row while a younger PENDING row
\* was waiting
C26_Witness ==
    \E w \in Workers : \E k \in DOMAIN jobs :
        /\ wk[w].pc = "handling"
        /\ wk[w].seen[1].status = StatusRunning
        /\ wk[w].job.id \in DOMAIN jobs
        /\ jobs[wk[w].job.id].status = StatusRunning
        /\ jobs[k].status = StatusPending
        /\ jobs[k].created_at > jobs[wk[w].job.id].created_at

\* C27: no step lowers the updated_at of a job row.
C27_UpdatedAtStep ==
    \A i \in DOMAIN jobs \cap DOMAIN jobs' : jobs'[i].updated_at >= jobs[i].updated_at

C27_UpdatedAtNeverDecreases == [][C27_UpdatedAtStep]_vars

\* the goroutines that have written counter c and not yet returned
C28_Written(c) == {g \in Goroutines : wk[g].pc = "unlock" /\ wk[g].counter = c}

\* the goroutines inside an Increment of counter c
C28_Inside(c) == {g \in Goroutines : wk[g].pc # "idle" /\ wk[g].counter = c}

\* every counter holds the number of increments made on it: the calls that
\* have returned and those that have written and not yet returned; with no
\* call on it in progress, k calls have raised it by exactly k; and the three
\* outcome counters together never exceed the outcome decisions made
C28_CountersExact ==
    /\ \A c \in CounterNames :
          /\ wmet[c] = hist.returned[c] + Cardinality(C28_Written(c))
          /\ wmet[c] <= hist.started[c]
          /\ C28_Inside(c) = {} => wmet[c] = hist.started[c]
    /\ wmet.completed_jobs + wmet.retried_jobs + wmet.failed_jobs <= hist.decisions

\* no step lowers a counter, and a step raises a counter by at most one
C28_CountersStep ==
    \A c \in CounterNames : wmet'[c] \in {wmet[c], wmet[c] + 1}

\* C28: within one process no counter ever decreases, k increments, however
\* interleaved, raise a counter by exactly k, and completed_jobs +
\* retried_jobs + failed_jobs never exceeds the outcome decisions made.
C28_CountersMonotoneAndExact == []C28_CountersExact /\ [][C28_CountersStep]_vars

\* two goroutines have incremented the same counter in overlapping calls (one
\* waited for the mutex while the other was inside), both have returned, and an
\* outcome decision was made whose write failed
C28_Witness ==
    \E c \in OutcomeCounters :
        /\ wmet[c] = 2 /\ hist.returned[c] = 2
        /\ \A g \in Goroutines : wk[g].pc = "idle"
        /\ hist.decisions > wmet.completed_jobs + wmet.retried_jobs + wmet.failed_jobs

\* some row can be leased now
C29_SomeLeasable == \E i \in DOMAIN jobs : Leasable(jobs[i], Unix(now))

\* the SELECT of a LeaseJob call takes a row whenever one can be leased,
\* whatever the number of RUNNING rows of its tenant, and a LeaseJob whose
\* write is not refused returns the row; the count of RUNNING rows decides
\* only the step of CreateJob that checks it
C29_CapAtAdmissionOnly ==
    /\ \A w \in Workers :
          /\ (wk[w].pc = "poll" /\ wk'[w] # wk[w]) =>
                wk'[w].pc = (IF C29_SomeLeasable THEN "leasing" ELSE "sleep")
          /\ (wk[w].pc = "leasing" /\ wk'[w].pc = "sleep") => wk[w].stale
    /\ \A q \in Requests :
          (rq'[q].code = 429 /\ rq[q].code # 429 /\ rq[q].pc # "new") =>
              /\ rq[q].pc = "count"
              /\ RunningCount(rq[q].tenant) >= maxConcurrentRunning

C30_Actors(i) ==
    {w \in Workers : /\ wk[w].job.id = i
                     /\ wk[w].pc \in {"leasing", "handling", "resetting"}
                     /\ wk'[w].pc # wk[w].pc}

\* what a step does to row i
C30_RowStep(i) ==
    LET r == jobs[i]
        gone == i \notin DOMAIN jobs'
        leasers == {w \in C30_Actors(i) : wk[w].pc = "leasing"}
        holders == {w \in C30_Actors(i) : wk[w].pc \in {"handling", "resetting"}}
    IN  IF gone
        THEN \* RUNNING -> deleted, into the DLQ, by the holder
             /\ r.status = StatusRunning
             /\ holders # {}
             /\ \E d \in dlq' \ dlq : d.job_id = i
        ELSE LET s == jobs'[i] IN
             \/ s = r
             \/ \* PENDING -> RUNNING, or the re-lease of an expired RUNNING row
                /\ \E w \in leasers :
                      /\ wk'[w].pc = "handling"
                      /\ r.status = StatusRunning =>
                            r.lease_expires_at[1] < Unix(wk[w].txNow)
                /\ r.status \in {StatusPending, StatusRunning}
                /\ s.status = StatusRunning
                /\ s.retry_count = r.retry_count
             \/ \* IncrementRetryCount by the holder: the status stays RUNNING
                /\ \E w \in holders : wk[w].pc = "handling" /\ wk'[w].pc = "resetting"
                /\ r.status = StatusRunning
                /\ s = [r EXCEPT !.retry_count = @ + 1, !.updated_at = s.updated_at]
             \/ \* RUNNING -> PENDING by the holder, retry_count one more than leased
                /\ \E w \in holders :
                      /\ wk[w].pc = "resetting"
                      /\ s.retry_count = wk[w].job.retry_count + 1
                /\ r.status = StatusRunning
                /\ s = [r EXCEPT !.status = StatusPending, !.updated_at = s.updated_at]
             \/ \* RUNNING -> DONE by the holder
                /\ \E w \in holders : wk[w].pc = "handling" /\ ~HandlerFails(wk[w].job)
                /\ r.status = StatusRunning
                /\ s = [r EXCEPT !.status = StatusDone, !.updated_at = s.updated_at]

\* C30: a row is changed only by a LeaseJob that returns it and by the worker
\* holding it from a LeaseJob; when no handler outlives its lease the only
\* status changes are PENDING -> RUNNING, expired RUNNING -> RUNNING,
\* RUNNING -> DONE, RUNNING -> PENDING with retry_count one higher, and
\* RUNNING -> deleted into the DLQ; no row appears and a DONE row never changes.
C30_Transitions ==
    /\ DOMAIN jobs' \subseteq DOMAIN jobs
    /\ \A i \in DOMAIN jobs : C30_RowStep(i)

C31_Rejected(q) == rq[q].pc # "done" /\ rq'[q].pc = "done" /\ rq'[q].code # 201

\* C31: the step that rejects a CreateJob call (429 by either limit, 500 on a
\* store error, 409) and every earlier step of such a call leave the jobs
\* table, the DLQ and total_jobs unchanged; a call refused by the
\* submission-rate check leaves every tenant's window unchanged; a request
\* answered 400 has an empty tenant_id or payload, is answered in its first
\* step, and changes neither the limiter's windows nor the store; a request
\* with both fields is never answered 400.
C31_RejectedStep ==
    \A q \in Requests :
        /\ (rq'[q] # rq[q] /\ ~Creates(q)) =>
              jobs' = jobs /\ dlq' = dlq /\ totalJobs' = totalJobs /\ nextId' = nextId
        /\ C31_Rejected(q) =>
              /\ jobs' = jobs /\ dlq' = dlq /\ totalJobs' = totalJobs
              /\ rq'[q].code \in {400, 409, 429, 500}
              /\ rq'[q].id = 0
        /\ (C31_Rejected(q) /\ rq[q].pc = "new" /\ rq'[q].code = 429) =>
              /\ win' = win
              /\ Valid(win[rq'[q].tenant])
              /\ win[rq'[q].tenant][1].count >= maxSubmissionsPerMinute
        /\ (C31_Rejected(q) /\ rq'[q].code = 400) =>
              /\ rq[q].pc = "new"
              /\ rq'[q].tenant = "" \/ rq'[q].payload = ""
              /\ win' = win /\ jobs' = jobs /\ dlq' = dlq /\ totalJobs' = totalJobs
        /\ (rq[q].pc \notin {"new", "done"}) =>
              /\ rq[q].tenant # "" /\ rq[q].payload # ""
              /\ rq'[q].code # 400

C31_RejectionChangesNothing == [][C31_RejectedStep]_vars

\* the three calls of a run were rejected, one with 400, one by the
\* submission-rate check at a full window and one after passing it, while a
\* job of the tenant exists
C31_Witness ==
    \E p, q, r \in Requests :
        /\ rq[p].pc = "done" /\ rq[p].code = 201 /\ rq[p].how = "inserted"
        /\ rq[q].pc = "done" /\ rq[q].code = 400 /\ rq[q].tenant = rq[p].tenant
        /\ rq[r].pc = "done" /\ rq[r].code = 429 /\ rq[r].tenant = rq[p].tenant
        /\ totalJobs = 1
        /\ Cardinality(DOMAIN jobs) + Cardinality(dlq) = 1

\* two workers hold the same job only if one of them has outlived its lease
C32_OneHolderInLease ==
    \A v, w \in Workers : \A i \in DOMAIN jobs :
        (v # w /\ Holder(v, i) /\ Holder(w, i)) => Late(v) \/ Late(w)

\* a holder's status write goes through whoever else holds the job and however
\* late the writer is: after it the row, if it still exists, has the writer's
\* status, and nothing else of the row but updated_at has changed
C32_LastWriterWins ==
    \A w \in Workers :
        LET i == wk[w].job.id IN
        /\ (wmet'[w].completed_jobs # wmet[w].completed_jobs /\ i \in DOMAIN jobs) =>
              jobs'[i] = [jobs[i] EXCEPT !.status = StatusDone,
                                         !.updated_at = jobs'[i].updated_at]
        /\ (wmet'[w].retried_jobs # wmet[w].retried_jobs /\ i \in DOMAIN jobs) =>
              jobs'[i] = [jobs[i] EXCEPT !.status = StatusPending,
                                         !.updated_at = jobs'[i].updated_at]
        /\ (wmet'[w] # wmet[w]) => Holder(w, i)

\* C32: two workers are between LeaseJob and their outcome write for the same
\* job only when one of them has outlived its lease; each of them writes its
\* outcome unconditionally, so the row's status is the last writer's.
C32_OverrunBothWrite == []C32_OneHolderInLease /\ [][C32_LastWriterWins]_vars

\* a DONE row stays in the table, DONE, with the retry_count it has, and no
\* DLQ row is made for it; only its updated_at may move
C33_DoneRowKept ==
    \A i \in DOMAIN jobs :
        jobs[i].status = StatusDone =>
            /\ i \in DOMAIN jobs'
            /\ jobs'[i] = [jobs[i] EXCEPT !.updated_at = jobs'[i].updated_at]
            /\ \A d \in dlq' : d.job_id # i

\* C33: with the reference handler a row that is DONE is never PENDING or
\* RUNNING again, never has its retry_count changed and is never moved to the
\* DLQ, whatever leases expire and however many workers hold the job.
C33_DoneIsFinal == [][C33_DoneRowKept]_vars

\* a job was completed by the worker that re-leased it while the worker whose
\* lease ran out still holds it, and that worker has written DONE again
C33_Witness ==
    \E i \in DOMAIN jobs : \E k \in DOMAIN jobs :
        /\ i # k /\ jobs[k].leased_at = Null
        /\ jobs[i].status = StatusDone
        /\ wmet[1].completed_jobs >= 1 /\ wmet[2].completed_jobs >= 1

\* C34: the DLQ holds at most one row per original job id.
C34_OneDlqRowPerJob ==
    \A d, e \in dlq : d.job_id = e.job_id => d = e

\* the calls that created a job under the tenant and idempotency key of call q
C35_Creators(q) ==
    {p \in Requests : /\ rq[p].how = "inserted"
                      /\ rq[p].tenant = rq[q].tenant /\ rq[p].key = rq[q].key}

\* call q carries a key under which jobs were created, all of them moved to
\* the DLQ since
C35_KeyDeadLettered(q) ==
    /\ rq[q].key # ""
    /\ C35_Creators(q) # {}
    /\ \A p \in C35_Creators(q) : InDlq(rq[p].id)

\* C35: once the job created under a tenant and idempotency key is in the DLQ,
\* a CreateJob call with that tenant and key finds no existing row at its
\* lookup and its INSERT meets no duplicate: a new row with an id no job ever
\* had is created and total_jobs goes up by one again.
C35_KeyFreeAgain ==
    \A q \in Requests :
        C35_KeyDeadLettered(q) =>
            /\ RowsOfKey(q) = {}
            /\ (LooksUp(q) /\ rq[q].pc = "lookup") => rq'[q].pc = "count"
            /\ LooksUp(q) => rq'[q].how \notin {"existing", "refetched"}
            /\ Inserts(q) =>
                  /\ Creates(q)
                  /\ ~rq'[q].dup
                  /\ rq'[q].code = 201
                  /\ rq'[q].id \notin DOMAIN jobs
                  /\ \A p \in C35_Creators(q) : rq'[q].id # rq[p].id
                  /\ ~InDlq(rq'[q].id)
                  /\ rq'[q].id \in DOMAIN jobs'
                  /\ totalJobs' = totalJobs + 1

C35_IdempotencyEndsWithRow == [][C35_KeyFreeAgain]_vars

\* a keyed job is in the DLQ and a call that arrived after that, with the same
\* tenant and key, has created a second job: total_jobs is 2
C35_Witness ==
    \E p, q \in Requests :
        /\ p < q
        /\ rq[p].how = "inserted" /\ rq[q].how = "inserted"
        /\ rq[p].key = "k1" /\ rq[q].key = "k1" /\ rq[p].tenant = rq[q].tenant
        /\ InDlq(rq[p].id)
        /\ rq[q].id \in DOMAIN jobs /\ rq[q].id # rq[p].id
        /\ totalJobs = 2
        /\ \A r \in Requests : r > q => rq[r].pc = "new"

\* the units of tenant t's window that are used up
C36_Consumed(t) == IF Valid(win[t]) THEN win[t][1].count ELSE 0

\* the jobs created for tenant t
C36_Created(t) == {q \in Requests : rq[q].tenant = t /\ rq[q].how = "inserted"}

\* the calls of tenant t that have passed the submission-rate check and have
\* not created a job: still inside CreateJob, or returned with an existing
\* job, a 409 or a 500
C36_PassedOnly(t) ==
    {q \in Requests : /\ rq[q].tenant = t
                      /\ \/ rq[q].pc \notin {"new", "done"}
                         \/ rq[q].how \in {"existing", "refetched"}
                         \/ rq[q].code \in {409, 500}}

\* within the window the jobs created for a tenant, together with its calls
\* that passed the check without creating one, are never more than the units
\* consumed, which are never more than the limit
C36_WindowAccounts ==
    \A t \in Tenants :
        /\ Cardinality(C36_Created(t)) + Cardinality(C36_PassedOnly(t)) <= C36_Consumed(t)
        /\ C36_Consumed(t) <= maxSubmissionsPerMinute

\* the check is the first step of a call and takes one unit when it lets the
\* call through; no later step of any call, whatever its answer, changes a
\* window, and no step gives a unit back
C36_NeverRefunded ==
    /\ \A q \in Requests :
          /\ (rq[q].pc = "new" /\ rq'[q].pc \notin {"new", "done"}) =>
                \E t \in Tenants :
                    /\ t = rq'[q].tenant
                    /\ Valid(win'[t])
                    /\ win'[t][1].count = C36_Consumed(t) + 1
          /\ (rq[q].pc # "new" /\ rq'[q] # rq[q]) => win' = win
    /\ \A t \in Tenants : C36_Consumed(t)' >= C36_Consumed(t)

\* C36: the submission-rate check runs first and its unit is never given
\* back: a call that passed it and then returned an existing job, or was
\* refused by the concurrent cap or a store error, has still used a unit, so
\* the jobs created for a tenant within a window are at most the limit and at
\* most the units consumed.
C36_RateUnitNotRefunded == []C36_WindowAccounts /\ [][C36_NeverRefunded]_vars

\* a tenant's window is used up by two calls of which only one created a job
\* (the other was given the existing job of its key), and a third call of the
\* tenant is refused although only one job was created
C36_Witness ==
    \E t \in Tenants : \E p, q, r \in Requests :
        /\ C36_Consumed(t) = maxSubmissionsPerMinute
        /\ C36_Created(t) = {p}
        /\ rq[q].tenant = t /\ rq[q].how = "existing"
        /\ rq[r].tenant = t /\ rq[r].code = 429
        /\ totalJobs = 1

\* worker w's context is cancelled and w is inside processJob
C37_CancelledInHandler(w) == ctx[w] /\ wk[w].pc \in {"handling", "resetting"}

\* C37: a worker whose context was cancelled while its handler ran leaves
\* processJob without changing the jobs table, the DLQ or any counter: the
\* row keeps the status, retry_count and lease it had; the counters of a
\* cancelled worker never change; and a RUNNING row is selected by a
\* LeaseJob only when its lease has expired.
C37_CancelledStep ==
    \A w \in Workers :
        /\ (C37_CancelledInHandler(w) /\ wk'[w].pc # wk[w].pc) =>
              /\ wk'[w].pc = "poll"
              /\ jobs' = jobs /\ dlq' = dlq /\ wmet' = wmet
        /\ ctx[w] => wmet'[w] = wmet[w]
        /\ (wk[w].pc = "poll" /\ wk'[w].pc = "leasing") =>
              LET r == jobs[wk'[w].job.id] IN
              r.status = StatusRunning => r.lease_expires_at[1] < Unix(now)

C37_CancelledWritesFail == [][C37_CancelledStep]_vars

\* a worker was cancelled while handling the job and has stopped: the row is
\* RUNNING with its lease not yet expired, nobody holds it, nothing was
\* counted and the DLQ is empty; the other worker is still running
C37_Witness ==
    \E w \in Workers :
        /\ ctx[w] /\ wk[w].pc = "stopped"
        /\ 1 \in DOMAIN jobs /\ jobs[1].status = StatusRunning
        /\ jobs[1].retry_count = 0
        /\ jobs[1].lease_expires_at[1] >= Unix(now)
        /\ \A v \in Workers : ~Holder(v, 1) /\ wmet[v] = ZeroMetrics
        /\ dlq = {}
        /\ \E v \in Workers : ~ctx[v] /\ wk[v].pc = "poll"

\* job k was created in a later second than job i
C38_Younger(i, k) == hist.created[i].created_at < hist.created[k].created_at

\* no job is leased while an always-failing job created in an earlier second
\* is still in the jobs table; when the older job is in the DLQ it has been
\* attempted max_retries + 1 times
C38_OlderFirst ==
    \A i, k \in AllIds :
        (AlwaysFails(i) /\ C38_Younger(i, k)) =>
            /\ hist.attempts[k] > 0 =>
                  /\ InDlq(i)
                  /\ hist.attempts[i] = hist.created[i].max_retries + 1
            /\ i \in DOMAIN jobs => k \in DOMAIN jobs /\ jobs[k] = hist.created[k]

\* a row keeps its created_at, whatever is written to it
C38_CreatedAtKept ==
    \A i \in DOMAIN jobs \cap DOMAIN jobs' : jobs'[i].created_at = hist.created[i].created_at

C38_FailingGone == \A i \in AllIds : AlwaysFails(i) => InDlq(i)

C39_Running(t) ==
    {i \in DOMAIN jobs : jobs[i].tenant_id = t /\ jobs[i].status = StatusRunning}

\* the tenant is at the cap, every one of its RUNNING rows has an expired
\* lease and none is held by a live worker
C39_AllExpired(t) ==
    /\ Cardinality(C39_Running(t)) >= maxConcurrentRunning
    /\ \A i \in C39_Running(t) :
          /\ jobs[i].lease_expires_at[1] < Unix(now)
          /\ Orphaned(i)

\* a CreateJob of such a tenant that is at its concurrent-running check goes
\* no further: the check refuses it with RateLimitExceeded (429), unless the
\* count itself fails (500)
C39_Refused ==
    \A t \in Tenants :
        C39_AllExpired(t) =>
            \A q \in Requests :
                (rq[q].pc = "count" /\ rq[q].tenant = t /\ rq'[q].pc # "count")
                    => /\ rq'[q].pc = "done" /\ rq'[q].id = 0
                       /\ rq'[q].code \in {429, 500}
                       /\ jobs' = jobs

\* the count of RUNNING rows of a tenant goes down only in a step in which a
\* worker writes DONE or PENDING to a row or moves it to the DLQ: not by the
\* clock, not by a lease running out, not by a re-lease
C39_FreedByWorker ==
    \A t \in Tenants :
        (\E i \in C39_Running(t) : i \notin DOMAIN jobs' \/ jobs'[i].status # StatusRunning)
            => \E w \in Workers : WroteOutcome(w) \/ ResetDone(w)

\* C39: the concurrent cap counts every RUNNING row, whatever its lease: a
\* tenant whose maxConcurrentRunning RUNNING rows all have expired leases has
\* each CreateJob that reaches the check refused with RateLimitExceeded, and
\* nothing but a worker's write of an outcome takes a row out of the count.
C39_ExpiredLeasesStillCount == [][C39_Refused /\ C39_FreedByWorker]_vars

\* a tenant's RUNNING row was left by a killed worker and its lease is over;
\* a CreateJob of the tenant was refused at the concurrent check
C39_Witness ==
    \E t \in Tenants, q \in Requests :
        /\ C39_AllExpired(t)
        /\ wk[2].pc = "crashed"
        /\ rq[q].pc = "done" /\ rq[q].tenant = t /\ rq[q].code = 429
        /\ ~SubmissionRefused(t)

\* worker w made the first write of the retry step and leaves it in this step
\* without the second: UpdateJobStatus(PENDING) failed, or the worker was killed
C40_Interrupted(w) ==
    wk[w].pc = "resetting" /\ wk'[w].pc # "resetting" /\ ~ResetDone(w)

\* the interrupted retry leaves the row RUNNING under its lease, with
\* retry_count one above the worker's copy, and counts no retry
C40_RowLeftRunning ==
    \A w \in Workers :
        C40_Interrupted(w) =>
            LET i == wk[w].job.id IN
            /\ jobs' = jobs /\ dlq' = dlq /\ wmet' = wmet
            /\ jobs[i].status = StatusRunning
            /\ jobs[i].retry_count = wk[w].job.retry_count + 1
            /\ ~Leasable(jobs[i], Unix(now))

\* a lease hands out the row with every increment made so far, and a RUNNING
\* row only once its lease is over
C40_LeasedWithCount ==
    \A w \in Workers :
        Granted(w) =>
            LET i == wk[w].job.id IN
            /\ wk'[w].job.retry_count = hist.bumps[i]
            /\ jobs'[i].retry_count = hist.bumps[i]
            /\ jobs[i].status = StatusRunning
                  => jobs[i].lease_expires_at[1] < Unix(wk[w].txNow)

\* the failures recorded for a job: the increments of retry_count and the DLQ
\* move; the resets counted never exceed the increments
C40_FailuresBounded ==
    \A i \in AllIds :
        /\ hist.bumps[i] + Cardinality(DlqOf(i)) <= hist.created[i].max_retries + 1
        /\ hist.bumps[i] <= hist.created[i].max_retries
        /\ hist.resets[i] <= hist.bumps[i]
        /\ i \in DOMAIN jobs => jobs[i].retry_count = hist.bumps[i]

\* C40: the retry step is two store writes; when the second is not made, the
\* row stays RUNNING with retry_count incremented and no retry counted, the
\* next lease (after the lease is over) carries the incremented retry_count,
\* and with no handler outliving its lease a job has at most max_retries
\* increments and one DLQ move.
C40_TwoWriteRetry ==
    /\ []C40_FailuresBounded
    /\ [][C40_RowLeftRunning /\ C40_LeasedWithCount]_vars

\* a job with max_retries MaxM is in the DLQ after MaxM increments of which
\* one was never followed by its reset: leased again after the lease ran out
C40_Witness ==
    \E i \in AllIds :
        /\ hist.created[i].max_retries = MaxM
        /\ InDlq(i)
        /\ hist.bumps[i] = MaxM
        /\ hist.resets[i] = MaxM - 1
        /\ hist.attempts[i] = MaxM + 1

====
